---- MODULE Spec2Model ----
(***************************************************************************)
(* Model of injectedConsole/plugin_help/editor.py: the read / transform /  *)
(* write-back protocol over the files of an ePub (BookContainer), its      *)
(* batch drivers, the regular-expression engine and the EditStack.         *)
(*                                                                         *)
(* A file's content is modelled as a record [decl, doctype, body]: whether *)
(* the text starts with an XML declaration, which doctype it carries, and  *)
(* the sequence of tokens that follows.  Two contents are equal exactly    *)
(* when the texts they stand for are equal.                                *)
(***************************************************************************)
EXTENDS Integers, Sequences, FiniteSets, TLC

VARIABLES store, session, last, gen, stack

vars == <<store, session, last, gen, stack>>

(***************************************************************************)
(* Bounds of the model.                                                    *)
(***************************************************************************)
\* longest body (in tokens) a caller-supplied transform builds by appending
MaxLen == 3
\* most sessions an EditStack opens in one behaviour
MaxOpens == 2

(***************************************************************************)
(* Values.                                                                 *)
(***************************************************************************)
\* Python's None, and the entry of a manifest id that has no file
None == [none |-> TRUE]
Absent == [absent |-> TRUE]

Ids == {"A", "B", "C"}

\* the media type of every manifest id (bc.id_to_mime)
id_to_mime(id) == IF id = "C" THEN "text/html" ELSE "application/xhtml+xml"

\* mimetype strings that contain 'xhtml'
HasXhtml(mime) == mime = "application/xhtml+xml"

\* the encoding a document names when it names none, and one that is not UTF-8
UTF8 == "UTF-8"
LATIN1 == "ISO-8859-1"

\* a text: whether it starts with an XML declaration, the encoding the declaration
\* names, its doctype and its markup
Doc(decl, doctype, body) ==
    [decl |-> decl, doctype |-> doctype, body |-> body,
     enc |-> IF decl THEN UTF8 ELSE "none"]

\* a parsed document: docinfo.doctype, docinfo.encoding and the elements
Tree(doctype, body) == [doctype |-> doctype, body |-> body, enc |-> "none"]

\* _HTML_DOCTYPE and _XHTML_DOCTYPE
HTML_DOCTYPE == "html"
XHTML_DOCTYPE == "xhtml"

\* a body token that is not well-formed markup: the XML parser rejects it
Malformed == "mal"
\* a node that the serializer cannot serialize
Unserializable == "uns"

IsContent(x) == x # None /\ x # Absent

(***************************************************************************)
(* BookContainer: the store of files.                                      *)
(***************************************************************************)
Exists(st, id) == st[id] # Absent

readfile(st, id) == st[id]

writefile(st, id, data) == [st EXCEPT ![id] = data]

(***************************************************************************)
(* The result of running a piece of code against the store: the store it   *)
(* leaves, the writes it issued, what it returned and what it raised.      *)
(***************************************************************************)
Result(st, writes, ret, exc) ==
    [store |-> st, writes |-> writes, ret |-> ret, exc |-> exc]

Returned(st, ret) == Result(st, <<>>, ret, "none")

Raised(st, exc) == Result(st, <<>>, FALSE, exc)

\* a mutant of write_if_changed: the comparison is dropped
write_always(st, id, content, content_new) ==
    IF ~Exists(st, id)
    THEN Raised(st, "NoSuchItem")
    ELSE Result(writefile(st, id, content_new), <<<<id, content_new>>>>, TRUE, "none")

\* if content != content_new: bc.writefile(...); return True / return False
write_if_changed(st, id, content, content_new) ==
    IF content = content_new
    THEN Returned(st, FALSE)
    ELSE IF ~Exists(st, id)
         THEN Raised(st, "NoSuchItem")
         ELSE Result(writefile(st, id, content_new),
                     <<<<id, content_new>>>>, TRUE, "none")

(***************************************************************************)
(* Parsing and serializing.                                                *)
(***************************************************************************)
CanParseXml(content) == \A i \in 1..Len(content.body) : content.body[i] # Malformed

xml_fromstring(content) ==
    [Tree(content.doctype, content.body) EXCEPT !.enc = content.enc]

CanSerialize(tree) == \A i \in 1..Len(tree.body) : tree.body[i] # Unserializable

\* encoding = docinfo.encoding or 'UTF-8'
encoding_of(tree) == IF tree.enc # "none" THEN tree.enc ELSE UTF8

\* method 'xml': the XML declaration is always emitted, the doctype is the document's
xml_tostring(tree) ==
    [Doc(TRUE, tree.doctype, tree.body) EXCEPT !.enc = encoding_of(tree)]

IsBlank(content) == ~content.decl /\ content.doctype = "none" /\ content.body = <<>>

\* the HTML parser recovers from malformed markup; a blank text gives the skeleton
html_fromstring(content) ==
    IF IsBlank(content)
    THEN Tree("none", <<"skel">>)
    ELSE [Tree(content.doctype, SelectSeq(content.body, LAMBDA t : t # Malformed))
             EXCEPT !.enc = content.enc]

\* a mutant of html_tostring: the method does not choose the doctype
html_tostring_html5(tree, method) ==
    LET doctype == IF tree.doctype # "none" THEN tree.doctype ELSE HTML_DOCTYPE
    IN  [Doc(TRUE, doctype, tree.body) EXCEPT !.enc = encoding_of(tree)]

html_tostring(tree, method) ==
    LET doctype == IF tree.doctype # "none" THEN tree.doctype
                   ELSE IF method = "html" THEN HTML_DOCTYPE
                   ELSE IF method = "xhtml" THEN XHTML_DOCTYPE
                   ELSE "none"
    IN  [Doc(TRUE, doctype, tree.body) EXCEPT !.enc = encoding_of(tree)]

(***************************************************************************)
(* What caller-supplied code does: operate(content), or the body of a      *)
(* with-block.  t is "return" or "raise"; e the exception; v the value     *)
(* returned, or carried by WriteBack.                                      *)
(***************************************************************************)
Return(v) == [t |-> "return", e |-> "none", v |-> v]

Raise(e, v) == [t |-> "raise", e |-> e, v |-> v]

\* the bodies a transform makes out of a body
Edits(body) ==
    {body, <<"baz">>}
    \cup (IF Len(body) < MaxLen THEN {Append(body, "baz")} ELSE {})

NewContents(content) == {[content EXCEPT !.body = b] : b \in Edits(content.body)}

Outcomes(content) ==
    {Return(c) : c \in NewContents(content)}
    \cup {Raise("WriteBack", c) : c \in NewContents(content)}
    \cup {Raise("DoNotWriteBack", None), Raise("Error", None)}

(***************************************************************************)
(* edit(manifest_id, operate, bc)                                          *)
(***************************************************************************)
\* a mutant of edit: every exception of operate is taken for DoNotWriteBack
edit_bare_except(st, manifest_id, out) ==
    IF ~Exists(st, manifest_id)
    THEN Raised(st, "NoSuchItem")
    ELSE LET content == readfile(st, manifest_id)
         IN  IF out.t = "raise" /\ out.e # "WriteBack"
             THEN Returned(st, FALSE)
             ELSE write_if_changed(st, manifest_id, content, out.v)

edit(st, manifest_id, out) ==
    IF ~Exists(st, manifest_id)
    THEN Raised(st, "NoSuchItem")
    ELSE LET content == readfile(st, manifest_id)
         IN  IF out.t = "raise" /\ out.e = "DoNotWriteBack"
             THEN Returned(st, FALSE)
             ELSE IF out.t = "raise" /\ out.e # "WriteBack"
                  THEN Raised(st, out.e)
                  ELSE write_if_changed(st, manifest_id, content, out.v)

(***************************************************************************)
(* The generators ctx_edit and ctx_edit_sgml.  A session is a generator    *)
(* suspended at a yield: what it read, the object it yielded (the wrapped  *)
(* record or the tree), and where it stands.                               *)
(***************************************************************************)
NoRec == [data |-> None, write_back |-> "Missing"]

NoSession == [kind |-> "none", id |-> "none", content |-> None, wrapped |-> FALSE,
              rec |-> NoRec, tree |-> None, method |-> "none", pos |-> "none",
              new |-> None]

\* what is sent into a suspended generator
GenNext == [t |-> "next", e |-> "none", v |-> None]

GenSend(v) == [t |-> "send", e |-> "none", v |-> v]

GenThrow(e, v) == [t |-> "throw", e |-> e, v |-> v]

Suspended(st, s) == [done |-> FALSE, sess |-> s, res |-> Returned(st, FALSE)]

Finished(res) == [done |-> TRUE, sess |-> NoSession, res |-> res]

\* ctx_edit up to its first yield
ctx_edit_open(st, manifest_id, wrap_me) ==
    IF ~Exists(st, manifest_id)
    THEN Finished(Raised(st, "NoSuchItem"))
    ELSE LET content == readfile(st, manifest_id)
         IN  Suspended(st, [NoSession EXCEPT
                 !.kind = IF wrap_me THEN "wrap" ELSE "plain",
                 !.id = manifest_id,
                 !.content = content,
                 !.wrapped = wrap_me,
                 !.rec = IF wrap_me THEN [data |-> content, write_back |-> "True"]
                         ELSE NoRec,
                 !.pos = "y1"])

\* a mutant of ctx_edit_except: a bare except that takes every exception for
\* DoNotWriteBack
ctx_edit_except_bare(st, s, inp) ==
    IF inp.e = "WriteBack"
    THEN Finished(write_if_changed(st, s.id, s.content, inp.v))
    ELSE Finished(Returned(st, FALSE))

\* a mutant of ctx_edit_except: the data of WriteBack is written without being
\* compared
ctx_edit_except_uncompared(st, s, inp) ==
    IF inp.e = "DoNotWriteBack" THEN Finished(Returned(st, FALSE))
    ELSE IF inp.e = "WriteBack"
         THEN Finished(Result(writefile(st, s.id, inp.v), <<<<s.id, inp.v>>>>, TRUE, "none"))
         ELSE Finished(Raised(st, inp.e))

\* ctx_edit: an exception thrown in at a yield (except DoNotWriteBack / except
\* WriteBack, anything else leaves the generator)
ctx_edit_except(st, s, inp) ==
    IF inp.e = "DoNotWriteBack" THEN Finished(Returned(st, FALSE))
    ELSE IF inp.e = "WriteBack"
         THEN Finished(write_if_changed(st, s.id, s.content, inp.v))
         ELSE Finished(Raised(st, inp.e))

\* a mutant of ctx_edit_wrapped: the write_back flag is not looked at
ctx_edit_wrapped_no_flag(st, s, inp) ==
    IF inp.t = "send" THEN Suspended(st, s)
    ELSE IF s.rec.data = None
         THEN Finished(Returned(st, FALSE))
         ELSE Finished(write_if_changed(st, s.id, s.content, s.rec.data))

\* ctx_edit, wrap_me: resumed by next() or send(v), v not None
ctx_edit_wrapped(st, s, inp) ==
    \* while (yield data) is not None: pass
    IF inp.t = "send" THEN Suspended(st, s)
    ELSE IF s.rec.data = None \/ s.rec.write_back # "True"
         THEN Finished(Returned(st, FALSE))
         ELSE Finished(write_if_changed(st, s.id, s.content, s.rec.data))

\* a mutant of ctx_edit_plain: the `while (yield None) is not None` is missing,
\* what is sent is written at once
ctx_edit_plain_no_while(st, s, inp) ==
    IF inp.t = "send"
    THEN Finished(write_if_changed(st, s.id, s.content, inp.v))
    ELSE Finished(Returned(st, FALSE))

\* ctx_edit, not wrap_me: resumed by next() or send(v), v not None
ctx_edit_plain(st, s, inp) ==
    IF s.pos = "y1"
    THEN \* content_new = yield content
         IF inp.t = "send"
         THEN Suspended(st, [s EXCEPT !.pos = "y2", !.new = inp.v])
         ELSE Finished(Returned(st, FALSE))
    ELSE \* while (yield None) is not None: pass
         IF inp.t = "send" THEN Suspended(st, s)
         ELSE Finished(write_if_changed(st, s.id, s.content, s.new))

\* ctx_edit resumed at a yield by next(), send(v) or throw(e)
ctx_edit(st, s, inp) ==
    IF inp.t = "throw" THEN ctx_edit_except(st, s, inp)
    ELSE IF s.kind = "wrap" THEN ctx_edit_wrapped(st, s, inp)
    ELSE ctx_edit_plain(st, s, inp)

IsTree(x) == "doctype" \in DOMAIN x /\ "decl" \notin DOMAIN x

tostring(s, tree) ==
    IF s.kind = "sgml" THEN xml_tostring(tree) ELSE html_tostring(tree, s.method)

\* ctx_edit_sgml up to its yield; kind "sgml" is the XML default, kind "html" is
\* what ctx_edit_html passes (html_fromstring, html_tostring with a method)
ctx_edit_sgml_open(st, manifest_id, kind) ==
    IF ~Exists(st, manifest_id)
    THEN Finished(Raised(st, "NoSuchItem"))
    ELSE LET content == readfile(st, manifest_id)
         IN  IF kind = "sgml" /\ ~CanParseXml(content)
             THEN Finished(Raised(st, "ParseError"))
             ELSE Suspended(st, [NoSession EXCEPT
                 !.kind = kind,
                 !.id = manifest_id,
                 !.content = content,
                 !.tree = IF kind = "sgml" THEN xml_fromstring(content)
                          ELSE html_fromstring(content),
                 !.method = IF kind = "sgml" THEN "xml"
                            ELSE IF HasXhtml(id_to_mime(manifest_id)) THEN "xhtml"
                            ELSE "html",
                 !.pos = "y1"])

\* ctx_edit_sgml: an exception thrown in at the yield
ctx_edit_sgml_except(st, s, inp) ==
    IF inp.e = "DoNotWriteBack" THEN Finished(Returned(st, FALSE))
    ELSE IF inp.e = "WriteBack"
         THEN IF IsTree(inp.v)
              THEN IF CanSerialize(inp.v)
                   THEN Finished(write_if_changed(
                            st, s.id, s.content, tostring(s, inp.v)))
                   ELSE Finished(Raised(st, "SerializeError"))
              ELSE Finished(write_if_changed(st, s.id, s.content, inp.v))
         ELSE Finished(Raised(st, inp.e))

\* a mutant of ctx_edit_sgml: a tree that cannot be serialized is taken for a
\* discard
ctx_edit_sgml_lenient(st, s, inp) ==
    IF inp.t = "throw" THEN ctx_edit_sgml_except(st, s, inp)
    ELSE IF inp.t = "send"
    THEN Finished(Returned(st, FALSE))
    ELSE IF CanSerialize(s.tree)
         THEN Finished(write_if_changed(st, s.id, s.content, tostring(s, s.tree)))
         ELSE Finished(Returned(st, FALSE))

\* ctx_edit_sgml resumed at its yield by next(), send(v) or throw(e)
ctx_edit_sgml(st, s, inp) ==
    IF inp.t = "throw" THEN ctx_edit_sgml_except(st, s, inp)
    ELSE IF inp.t = "send"
    THEN \* if (yield tree) is not None: raise DoNotWriteBack
         Finished(Returned(st, FALSE))
    ELSE IF CanSerialize(s.tree)
         THEN Finished(write_if_changed(st, s.id, s.content, tostring(s, s.tree)))
         ELSE Finished(Raised(st, "SerializeError"))

ctx_open(st, manifest_id, kind) ==
    IF kind \in {"plain", "wrap"}
    THEN ctx_edit_open(st, manifest_id, kind = "wrap")
    ELSE ctx_edit_sgml_open(st, manifest_id, kind)

\* a mutant of ctx_resume: a generator that has ended runs its last part again
ctx_resume_restartable(st, s, inp) ==
    IF s.kind \in {"plain", "wrap"} THEN ctx_edit(st, s, inp)
    ELSE ctx_edit_sgml(st, s, inp)

\* the generator of a session resumed by next(), send(v) or throw(e); one that has
\* ended (pos "end") raises StopIteration, or the exception thrown in, and runs
\* no code
ctx_resume(st, s, inp) ==
    IF s.pos = "end"
    THEN Finished(Raised(st, IF inp.t = "throw" THEN inp.e ELSE "StopIteration"))
    ELSE IF s.kind \in {"plain", "wrap"} THEN ctx_edit(st, s, inp)
    ELSE ctx_edit_sgml(st, s, inp)

\* a mutant of cm_exit: the session is closed as after a normal end of the body
\* before an error of the body goes on to the caller
cm_exit_then_raise(st, s, sig) ==
    IF sig.t = "raise" /\ sig.e = "Error"
    THEN LET r == ctx_resume(st, s, GenNext).res
         IN  IF r.exc = "none" THEN [r EXCEPT !.exc = sig.e] ELSE r
    ELSE ctx_resume(st, s, IF sig.t = "raise" THEN GenThrow(sig.e, sig.v) ELSE GenNext).res

\* contextlib's __exit__ of a @contextmanager: a body that ended normally resumes
\* the generator with next(), a body that raised throws the exception into it; an
\* exception the generator absorbs is suppressed, any other propagates
cm_exit(st, s, sig) ==
    ctx_resume(st, s, IF sig.t = "raise" THEN GenThrow(sig.e, sig.v) ELSE GenNext).res

(***************************************************************************)
(* A batch call in progress (edit_iter, edit_html_iter, element_iter,      *)
(* edit_batch, edit_html_batch): its arguments, the candidates not yet     *)
(* taken from the iterator, where it stands, its counters and status map,  *)
(* and what it has read and yielded so far; counts keeps, for each item    *)
(* whose matches or elements were looked up, how many were found.          *)
(***************************************************************************)
NoStatus == [id \in Ids |-> "Missing"]

NoGen == [op |-> "none", wrap |-> FALSE, cm |-> FALSE, more |-> FALSE, pred |-> "none",
          path |-> "none", args |-> <<>>, todo |-> <<>>, st |-> "none", k |-> 0, j |-> 0, i |-> 0,
          els |-> 0, errors |-> "none", repl |-> "none", cur |-> "none",
          status |-> NoStatus, reads |-> <<>>, yields |-> <<>>, counts |-> <<>>]

Out(g, s, res) == [gen |-> g, sess |-> s, res |-> res]

\* the generator's loop is exhausted: StopIteration
Stop(st, g) == Out([g EXCEPT !.st = "done"], NoSession, Raised(st, "StopIteration"))

\* an exception leaves the generator
Dead(g, res) == Out([g EXCEPT !.st = "dead"], NoSession, res)

Yielded(id, i, j, k) == [id |-> id, i |-> i, j |-> j, k |-> k]

\* the ids in the order the BookContainer enumerates them
IdOrder == <<"A", "B", "C">>

\* bc.manifest_iter(): every file of the manifest
manifest_iter(st) == SelectSeq(IdOrder, LAMBDA id : Exists(st, id))

\* bc.text_iter(): the (X)HTML files of the manifest
text_iter(st) ==
    SelectSeq(IdOrder, LAMBDA id : Exists(st, id) /\ HasXhtml(id_to_mime(id)))

id_to_href(id) == id

\* the caller's predicates, by the name the model gives them:
\* None, lambda id: id == "A", lambda id: id == "B"
Preds == {"none", "isA", "isB"}

\* the predicate built by _make_standard_predicate, applied
predicate(p, manifest_id, href, mimetype) ==
    IF p = "none" THEN TRUE
    ELSE IF p = "isA" THEN manifest_id = "A"
    ELSE manifest_id = "B"

InSeq(x, seq) == \E n \in 1..Len(seq) : seq[n] = x

\* a mutant of edit_iter_for: the predicate is not asked
RECURSIVE edit_iter_for_unfiltered(_, _)
edit_iter_for_unfiltered(st, g) ==
    IF g.todo = <<>> THEN Stop(st, g)
    ELSE LET fid == Head(g.todo)
             g1 == [g EXCEPT !.todo = Tail(g.todo)]
         IN  IF g.cm
             THEN Out([g1 EXCEPT !.st = "cm",
                                 !.yields = Append(@, Yielded(fid, 0, 0, 0))],
                      NoSession, Returned(st, FALSE))
             ELSE LET o == ctx_edit_open(st, fid, g.wrap)
                      g2 == [g1 EXCEPT !.reads = Append(@, fid)]
                  IN  IF o.done THEN Dead(g2, o.res)
                      ELSE Out([g2 EXCEPT !.st = "item",
                                          !.yields = Append(@, Yielded(fid, 0, 0, 0))],
                               o.sess, o.res)

\* edit_iter: the for loop, from the next candidate to the next yield
RECURSIVE edit_iter_for(_, _)
edit_iter_for(st, g) ==
    IF g.todo = <<>> THEN Stop(st, g)
    ELSE LET fid == Head(g.todo)
             g1 == [g EXCEPT !.todo = Tail(g.todo)]
         IN  IF ~predicate(g.pred, fid, id_to_href(fid), id_to_mime(fid))
             THEN edit_iter_for(st, g1)
             ELSE IF g.cm
             THEN Out([g1 EXCEPT !.st = "cm",
                                 !.yields = Append(@, Yielded(fid, 0, 0, 0))],
                      NoSession, Returned(st, FALSE))
             ELSE LET o == ctx_edit_open(st, fid, g.wrap)
                      g2 == [g1 EXCEPT !.reads = Append(@, fid)]
                  IN  IF o.done THEN Dead(g2, o.res)
                      ELSE Out([g2 EXCEPT !.st = "item",
                                          !.yields = Append(@, Yielded(fid, 0, 0, 0))],
                               o.sess, o.res)

\* a result with the writes of an earlier step of the same call put in front
After(writes, o) == [o EXCEPT !.res.writes = writes \o @]

\* a mutant of edit_iter: the next item is read before the item the generator
\* stands at is written
edit_iter_read_ahead(st, g, s, inp) ==
    IF g.st \in {"new", "cm"}
    THEN IF inp.t = "throw" THEN Dead(g, Raised(st, inp.e))
         ELSE edit_iter_for(st, g)
    ELSE LET r == ctx_edit(st, s, inp)
         IN  IF ~r.done THEN Out(g, r.sess, r.res)
             ELSE IF r.res.exc # "none" THEN Dead(g, r.res)
             ELSE [After(r.res.writes, edit_iter_for(st, g)) EXCEPT
                      !.res.store = r.res.store]

\* edit_iter resumed by next(), send(v) or throw(e)
edit_iter(st, g, s, inp) ==
    IF g.st \in {"new", "cm"}
    THEN IF inp.t = "throw" THEN Dead(g, Raised(st, inp.e))
         ELSE edit_iter_for(st, g)
    ELSE \* yield from ctx_edit.__wrapped__(...)
         LET r == ctx_edit(st, s, inp)
         IN  IF ~r.done THEN Out(g, r.sess, r.res)
             ELSE IF r.res.exc # "none" THEN Dead(g, r.res)
             ELSE After(r.res.writes, edit_iter_for(r.res.store, g))

\* the object under data['etree']: the tree the session holds
TreeRef == [ref |-> "etree"]

\* edit_html_iter: the for loop, from the next candidate to the next yield
RECURSIVE edit_html_iter_for(_, _)
edit_html_iter_for(st, g) ==
    IF g.todo = <<>> THEN Stop(st, g)
    ELSE LET fid == Head(g.todo)
             g1 == [g EXCEPT !.todo = Tail(g.todo)]
         IN  IF ~predicate(g.pred, fid, id_to_href(fid), id_to_mime(fid))
             THEN edit_html_iter_for(st, g1)
             ELSE IF g.cm
             THEN Out([g1 EXCEPT !.st = "cm",
                                 !.yields = Append(@, Yielded(fid, 0, 0, 0))],
                      NoSession, Returned(st, FALSE))
             ELSE LET o == ctx_edit_sgml_open(st, fid, "html")
                      g2 == [g1 EXCEPT !.reads = Append(@, fid)]
                  IN  IF o.done THEN Dead(g2, o.res)
                      ELSE Out([g2 EXCEPT !.st = "item",
                                          !.yields = Append(@, Yielded(fid, 0, 0, 0))],
                               IF g.wrap
                               THEN [o.sess EXCEPT
                                        !.wrapped = TRUE,
                                        !.rec = [data |-> TreeRef, write_back |-> "True"]]
                               ELSE o.sess,
                               o.res)

\* edit_html_iter: the with-block over ctx_edit_html is left, by the loop ending
\* (next) or by an exception thrown in at the yield
edit_html_iter_leave(st, g, s, inp) ==
    cm_exit(st, s,
            IF inp.t = "throw" THEN Raise(inp.e, inp.v)
            ELSE IF g.wrap /\ s.rec.write_back # "True"
                 THEN Raise("DoNotWriteBack", None)
                 ELSE Return(None))

\* edit_html_iter resumed by next(), send(v) or throw(e)
edit_html_iter(st, g, s, inp) ==
    IF g.st \in {"new", "cm"}
    THEN IF inp.t = "throw" THEN Dead(g, Raised(st, inp.e))
         ELSE edit_html_iter_for(st, g)
    ELSE \* while (yield ...) is not None: pass
         IF inp.t = "send" THEN Out(g, s, Returned(st, FALSE))
         ELSE LET r == edit_html_iter_leave(st, g, s, inp)
              IN  IF r.exc # "none" THEN Dead(g, r)
                  ELSE After(r.writes, edit_html_iter_for(r.store, g))

\* the elements of the tree the compiled path selects (their number)
select(path, tree) == Cardinality({n \in 1..Len(tree.body) : tree.body[n] = path})

\* a mutant of element_iter_for: the elements of every item are numbered from 1
RECURSIVE element_iter_for_reset(_, _)
element_iter_for_reset(st, g) ==
    LET a == edit_html_iter_for(st, g)
    IN  IF a.gen.st # "item" THEN [a EXCEPT !.gen.yields = g.yields]
        ELSE LET n == select(g.path, a.sess.tree)
                 g1 == [a.gen EXCEPT !.k = @ + 1, !.yields = g.yields,
                                     !.counts = Append(@, n)]
             IN  IF n = 0
                 THEN \* del data['write_back']; continue
                      LET r == edit_html_iter_leave(
                                   st, g1, [a.sess EXCEPT !.rec.write_back = "Missing"],
                                   GenNext)
                      IN  IF r.exc # "none" THEN Dead(g1, r)
                          ELSE After(r.writes, element_iter_for_reset(r.store, g1))
                 ELSE LET j == IF g.more THEN 1 ELSE g.j
                      IN  Out([g1 EXCEPT !.st = "els", !.els = n - 1, !.i = 1, !.j = j,
                                  !.yields = Append(@, Yielded(a.sess.id, 1, j, g1.k))],
                              a.sess, a.res)

\* a mutant of element_iter_for: an item without elements keeps its write_back flag
RECURSIVE element_iter_for_keep_flag(_, _)
element_iter_for_keep_flag(st, g) ==
    LET a == edit_html_iter_for(st, g)
    IN  IF a.gen.st # "item" THEN [a EXCEPT !.gen.yields = g.yields]
        ELSE LET n == select(g.path, a.sess.tree)
                 g1 == [a.gen EXCEPT !.k = @ + 1, !.yields = g.yields,
                                     !.counts = Append(@, n)]
             IN  IF n = 0
                 THEN \* continue
                      LET r == edit_html_iter_leave(
                                   st, g1, a.sess,
                                   GenNext)
                      IN  IF r.exc # "none" THEN Dead(g1, r)
                          ELSE After(r.writes, element_iter_for_keep_flag(r.store, g1))
                 ELSE LET j == IF g.more THEN g.j + 1 ELSE g.j
                      IN  Out([g1 EXCEPT !.st = "els", !.els = n - 1, !.i = 1, !.j = j,
                                  !.yields = Append(@, Yielded(a.sess.id, 1, j, g1.k))],
                              a.sess, a.res)

\* element_iter: the for loop over edit_html_iter(wrap_me=True), from the next
\* record to the next yield
RECURSIVE element_iter_for(_, _)
element_iter_for(st, g) ==
    LET a == edit_html_iter_for(st, g)
    IN  IF a.gen.st # "item" THEN [a EXCEPT !.gen.yields = g.yields]
        ELSE LET n == select(g.path, a.sess.tree)
                 g1 == [a.gen EXCEPT !.k = @ + 1, !.yields = g.yields,
                                     !.counts = Append(@, n)]
             IN  IF n = 0
                 THEN \* del data['write_back']; continue
                      LET r == edit_html_iter_leave(
                                   st, g1, [a.sess EXCEPT !.rec.write_back = "Missing"],
                                   GenNext)
                      IN  IF r.exc # "none" THEN Dead(g1, r)
                          ELSE After(r.writes, element_iter_for(r.store, g1))
                 ELSE LET j == IF g.more THEN g.j + 1 ELSE g.j
                      IN  Out([g1 EXCEPT !.st = "els", !.els = n - 1, !.i = 1, !.j = j,
                                  !.yields = Append(@, Yielded(a.sess.id, 1, j, g1.k))],
                              a.sess, a.res)

\* a mutant of element_iter: closing the generator commits the item it stands at
element_iter_close_commits(st, g, s, inp) ==
    IF inp.t = "throw"
    THEN IF g.st = "els"
         THEN Dead(g, [edit_html_iter_leave(st, g, s, GenNext) EXCEPT !.exc = inp.e])
         ELSE Dead(g, Raised(st, inp.e))
    ELSE IF g.st = "new" THEN element_iter_for(st, g)
    ELSE IF g.els > 0
    THEN LET j == IF g.more THEN g.j + 1 ELSE g.j
         IN  Out([g EXCEPT !.els = @ - 1, !.i = @ + 1, !.j = j,
                     !.yields = Append(@, Yielded(s.id, g.i + 1, j, g.k))],
                 s, Returned(st, FALSE))
    ELSE LET r == edit_html_iter_leave(st, g, s, GenNext)
         IN  IF r.exc # "none" THEN Dead(g, r)
             ELSE After(r.writes, element_iter_for(r.store, g))

\* element_iter resumed by next() or throw(e)
element_iter(st, g, s, inp) ==
    IF inp.t = "throw" THEN Dead(g, Raised(st, inp.e))
    ELSE IF g.st = "new" THEN element_iter_for(st, g)
    ELSE IF g.els > 0
    THEN LET j == IF g.more THEN g.j + 1 ELSE g.j
         IN  Out([g EXCEPT !.els = @ - 1, !.i = @ + 1, !.j = j,
                     !.yields = Append(@, Yielded(s.id, g.i + 1, j, g.k))],
                 s, Returned(st, FALSE))
    ELSE LET r == edit_html_iter_leave(st, g, s, GenNext)
         IN  IF r.exc # "none" THEN Dead(g, r)
             ELSE After(r.writes, element_iter_for(r.store, g))

\* edit_batch: the body of the loop for one accepted item,
\* with ctx_edit(fid, bc, wrap_me=True) as data: data['data'] = operate(data['data'])
edit_batch_item(st, fid, out) ==
    LET o == ctx_edit_open(st, fid, TRUE)
    IN  IF o.done THEN o.res
        ELSE IF out.t = "return"
             THEN cm_exit(st, [o.sess EXCEPT !.rec.data = out.v], Return(None))
             ELSE cm_exit(st, o.sess, out)

\* edit_html_batch: the body of the loop for one accepted item,
\* with ctx_edit_html(fid, bc) as tree: operate(tree)
edit_html_batch_item(st, fid, body, out) ==
    LET o == ctx_edit_sgml_open(st, fid, "html")
    IN  IF o.done THEN o.res
        ELSE cm_exit(st, [o.sess EXCEPT !.tree.body = body], out)

(***************************************************************************)
(* EditStack.  _data caches the entries by manifest id; _edit_stack is the *)
(* ExitStack of the sessions behind them, in the order they were opened.   *)
(* An entry is the dict that ctx_edit(fid, bc, wrap_me=True) yields: the   *)
(* session and every caller that got the entry hold the same object, so    *)
(* the entries live in `entries` and are named by their place in it (0: no *)
(* entry).  reads counts the reads of each file since the last close.      *)
(***************************************************************************)
NoStack == [type |-> "EditStack",
            data |-> [id \in Ids |-> 0], edit_stack |-> <<>>, entries |-> <<>>,
            reads |-> [id \in Ids |-> 0]]

\* the keys of read_id, read_href, read_basename, read_bookpath
KeyKinds == {"id", "href", "basename", "bookpath"}

\* bc.href_to_id / basename_to_id / bookpath_to_id: the id of the file the key
\* names, their default when no file has it; read_id takes the key for the id
key_to_id(st, by, of) ==
    IF by = "id" THEN of
    ELSE IF Exists(st, of) THEN of
    ELSE "none"

Got(stk, h, exc) == [stack |-> stk, h |-> h, exc |-> exc]

\* the classes: EditStack and its subclass TextEditStack
StackTypes == {"EditStack", "TextEditStack"}

\* the objects passed as arguments: the BookContainer, and a manifest id (a str)
BookContainer == [bookcontainer |-> TRUE]

Str(id) == [str |-> id]

\* __context_factory__(bc, fid).  EditStack: lambda bc, fid: ctx_edit(fid, bc,
\* wrap_me=True).  TextEditStack: ctx_edit_html, whose parameters are
\* (manifest_id, bc).
context_factory(type, bc, fid) ==
    IF type = "EditStack"
    THEN [fn |-> "ctx_edit", manifest_id |-> fid, bc |-> bc]
    ELSE [fn |-> "ctx_edit_html", manifest_id |-> bc, bc |-> fid]

\* __enter__ of the context manager: the generator runs to its first yield;
\* bc.readfile / bc.id_to_mime on an object that is no BookContainer fails
cm_enter(st, cm) ==
    IF cm.bc # BookContainer THEN Finished(Raised(st, "AttributeError"))
    ELSE IF cm.fn = "ctx_edit" THEN ctx_edit_open(st, cm.manifest_id.str, TRUE)
    ELSE ctx_edit_sgml_open(st, cm.manifest_id.str, "html")

\* the object a session yields: the wrapped record of ctx_edit, the tree of
\* ctx_edit_html
Entry(s) == IF s.kind = "wrap" THEN s.rec ELSE s.tree

\* a mutant of enter_context: the error of the open is not replaced by KeyError
enter_context_raw(st, stk, fid) ==
    IF fid \notin Ids THEN Got(stk, 0, "KeyError")
    ELSE LET o == cm_enter(st, context_factory(stk.type, BookContainer, Str(fid)))
             h == Len(stk.entries) + 1
         IN  IF o.done THEN Got(stk, 0, o.res.exc)
             ELSE Got([stk EXCEPT !.entries = Append(@, Entry(o.sess)),
                                  !.edit_stack = Append(@, [sess |-> o.sess, h |-> h]),
                                  !.data[fid] = h,
                                  !.reads[fid] = @ + 1],
                      h, "none")

\* self._edit_stack.enter_context(type(self).__context_factory__(self._bc, fid))
enter_context(st, stk, fid) ==
    IF fid \notin Ids THEN Got(stk, 0, "KeyError")
    ELSE LET o == cm_enter(st, context_factory(stk.type, BookContainer, Str(fid)))
             h == Len(stk.entries) + 1
         IN  IF o.done THEN Got(stk, 0, "KeyError")
             ELSE Got([stk EXCEPT !.entries = Append(@, Entry(o.sess)),
                                  !.edit_stack = Append(@, [sess |-> o.sess, h |-> h]),
                                  !.data[fid] = h,
                                  !.reads[fid] = @ + 1],
                      h, "none")

\* a mutant of EditStack_getitem: the cache is not looked at
EditStack_getitem_uncached(st, stk, fid) == enter_context(st, stk, fid)

\* EditStack.__getitem__(fid)
EditStack_getitem(st, stk, fid) ==
    IF fid \in Ids /\ stk.data[fid] # 0
    THEN Got(stk, stk.data[fid], "none")
    ELSE enter_context(st, stk, fid)

\* read_id / read_href / read_basename / read_bookpath
EditStack_read(st, stk, by, of) == EditStack_getitem(st, stk, key_to_id(st, by, of))

\* contextlib.ExitStack.__exit__ under way: the store, exc_details, whether an
\* exception raised by a callback is pending, and the writes issued
Unwind(st, exc) == [store |-> st, exc |-> exc, pending |-> FALSE, writes |-> <<>>]

\* a mutant of exit_callback: the exception a callback raised is kept for the
\* caller, the callbacks that follow are called as after a normal end
exit_callback_forgets(x, s) ==
    LET r == cm_exit(x.store, s, Return(None))
        x1 == [x EXCEPT !.store = r.store, !.writes = @ \o r.writes]
    IN  IF r.exc = "none" THEN x1
        ELSE [x1 EXCEPT !.pending = TRUE, !.exc = Raise(r.exc, None)]

\* ExitStack.__exit__: one callback, the __exit__ of a session, called with
\* exc_details.  It suppresses the exception, lets it go on, or raises another.
exit_callback(x, s) ==
    LET r == cm_exit(x.store, s, x.exc)
        x1 == [x EXCEPT !.store = r.store, !.writes = @ \o r.writes]
    IN  IF r.exc = "none"
        THEN IF x.exc.t = "raise"
             THEN [x1 EXCEPT !.pending = FALSE, !.exc = Return(None)]
             ELSE x1
        ELSE IF x.exc.t = "raise" /\ r.exc = x.exc.e
             THEN x1
             ELSE [x1 EXCEPT !.pending = TRUE, !.exc = Raise(r.exc, None)]

\* ExitStack.__exit__(*exc_details): the callbacks popped, the last opened first
RECURSIVE ExitStack_exit(_, _, _)
ExitStack_exit(callbacks, entries, x) ==
    IF callbacks = <<>> THEN x
    ELSE LET cb == callbacks[Len(callbacks)]
             s == IF cb.sess.kind = "wrap" THEN [cb.sess EXCEPT !.rec = entries[cb.h]]
                  ELSE [cb.sess EXCEPT !.tree = entries[cb.h]]
         IN  ExitStack_exit(SubSeq(callbacks, 1, Len(callbacks) - 1), entries,
                            exit_callback(x, s))

\* the stack after a close, and the result of the close: the exception is the
\* one a callback raised, if any
Closed(stk, x) ==
    [stack |-> stk,
     res |-> Result(x.store, x.writes, FALSE, IF x.pending THEN x.exc.e ELSE "none")]

\* a mutant of EditStack_exit: the sessions are not popped from _edit_stack
EditStack_exit_keeps(st, stk, exc) ==
    Closed([stk EXCEPT !.data = NoStack.data, !.reads = NoStack.reads],
           ExitStack_exit(stk.edit_stack, stk.entries, Unwind(st, exc)))

\* EditStack.__exit__(*exc_info): self._data.clear(); self._edit_stack.__exit__(*exc_info)
EditStack_exit(st, stk, exc) ==
    Closed([stk EXCEPT !.data = NoStack.data, !.edit_stack = <<>>,
                       !.reads = NoStack.reads],
           ExitStack_exit(stk.edit_stack, stk.entries, Unwind(st, exc)))

\* EditStack.clear(): self.__exit__(*sys.exc_info()), exc_info being the exception
\* the caller is handling, if any
EditStack_clear(st, stk, exc_info) == EditStack_exit(st, stk, exc_info)

(***************************************************************************)
(* The record of the last call: which operation, on which id, the store    *)
(* before it, what the caller's code did (sig), the session it acted on,   *)
(* and its result.                                                         *)
(***************************************************************************)
Call(op, kind, id, pre, sig, sess, res) ==
    [op |-> op, kind |-> kind, id |-> id, pre |-> pre, sig |-> sig, sess |-> sess,
     writes |-> res.writes, ret |-> res.ret, exc |-> res.exc]

\* the calls that end the session they act on
Closing(call) == call.sess # NoSession /\ call.op \in {"exit", "leave", "item"}

NoCall(st) == Call("init", "none", "none", st, Return(None), NoSession, Returned(st, FALSE))

(***************************************************************************)
(* The files the model starts from.                                        *)
(***************************************************************************)
InitBodies == {<<>>, <<"foo", "bar", "foo">>, <<"bar", "bar">>, <<Malformed>>}

InitContents ==
    {Doc(d, t, b) : d \in BOOLEAN, t \in {"none", HTML_DOCTYPE, XHTML_DOCTYPE},
                    b \in InitBodies}

(***************************************************************************)
(* Single-item operations: edit, and with-blocks over ctx_edit,            *)
(* ctx_edit_sgml and ctx_edit_html.                                        *)
(***************************************************************************)
Kinds == {"plain", "wrap", "sgml", "html"}

\* the ids the single-item operations are called with: "A" has a file or not,
\* "C" never has one, and "B" is a file no call names
SingleIds == {"A", "C"}

InitEdit ==
    /\ store \in {st \in [Ids -> InitContents \cup {Absent}] :
                    /\ st["B"] = Doc(TRUE, XHTML_DOCTYPE, <<"bar", "bar">>)
                    /\ st["C"] = Absent}
    /\ session = NoSession
    /\ last = NoCall(store)
    /\ gen = NoGen
    /\ stack = NoStack

\* edit(manifest_id, operate): operate returns or raises as out says
Edit ==
    /\ gen.op = "none"
    /\ \E id \in SingleIds :
         \E out \in (IF Exists(store, id) THEN Outcomes(store[id])
                     ELSE {Return(None)}) :
           LET r == edit(store, id, out)
           IN  /\ store' = r.store
               /\ last' = Call("edit", "none", id, store, out, NoSession, r)
               /\ UNCHANGED <<session, gen>>
    /\ UNCHANGED stack

\* with ctx_edit(id) / ctx_edit(id, wrap_me=True) / ctx_edit_sgml(id) /
\* ctx_edit_html(id): __enter__
CtxEnter ==
    /\ session = NoSession
    /\ gen.op = "none"
    /\ \E id \in SingleIds, kind \in Kinds :
         LET r == ctx_open(store, id, kind)
         IN  /\ session' = r.sess
             /\ store' = r.res.store
             /\ last' = Call("enter", kind, id, store, Return(None), r.sess, r.res)
    /\ UNCHANGED gen
    /\ UNCHANGED stack

\* the body assigns data['data'], or deletes it
BodySetData ==
    /\ session.kind = "wrap"
    /\ gen.st # "dead"
    /\ \E c \in NewContents(session.content) \cup {None} :
         /\ c # session.rec.data
         /\ session' = [session EXCEPT !.rec.data = c]
    /\ UNCHANGED <<store, last, gen>>
    /\ UNCHANGED stack

\* the body assigns data['write_back'], or deletes it; the consumer of element_iter
\* is given elements or IterElementInfo tuples, never the record
BodySetWriteBack ==
    /\ session.wrapped
    /\ gen.st # "dead"
    /\ gen.op # "element_iter"
    /\ \E v \in {"True", "False", "Missing"} :
         /\ v # session.rec.write_back
         /\ session' = [session EXCEPT !.rec.write_back = v]
    /\ UNCHANGED <<store, last, gen>>
    /\ UNCHANGED stack

\* the body changes the tree in place
BodyEditTree ==
    /\ session.kind \in {"sgml", "html"}
    /\ gen.st # "dead"
    /\ \E b \in Edits(session.tree.body) \cup {<<Unserializable>>} :
         /\ b # session.tree.body
         /\ session' = [session EXCEPT !.tree.body = b]
    /\ UNCHANGED <<store, last, gen>>
    /\ UNCHANGED stack

\* what the body of a with-block ends with
BodyEnds(s) ==
    {Return(None), Raise("DoNotWriteBack", None), Raise("Error", None)}
    \cup {Raise("WriteBack", c) : c \in NewContents(s.content)}
    \cup (IF s.kind \in {"sgml", "html"}
          THEN {Raise("WriteBack", s.tree)} ELSE {})

\* the with-block is left: __exit__
CtxExit ==
    /\ session # NoSession
    /\ gen.op = "none"
    /\ \E sig \in BodyEnds(session) :
         LET r == cm_exit(store, session, sig)
         IN  /\ store' = r.store
             /\ session' = NoSession
             /\ last' = Call("exit", session.kind, session.id, store, sig, session, r)
    /\ UNCHANGED gen
    /\ UNCHANGED stack

NextEdit == Edit \/ CtxEnter \/ BodySetData \/ BodySetWriteBack \/ BodyEditTree \/ CtxExit

SpecEdit == InitEdit /\ [][NextEdit]_vars

(***************************************************************************)
(* C1: edit with a transform that returns content equal to the content     *)
(* read returns False, calls no write, and leaves the store as it was.     *)
(***************************************************************************)
EditReturnedSame ==
    /\ last.op = "edit"
    /\ Exists(last.pre, last.id)
    /\ last.sig.t = "return"
    /\ last.sig.v = last.pre[last.id]

EditUnchangedNoWrite ==
    EditReturnedSame =>
        /\ last.exc = "none"
        /\ last.ret = FALSE
        /\ last.writes = <<>>
        /\ store = last.pre

EditUnchangedSeen == EditReturnedSame /\ last.pre["A"].body = <<"foo", "bar", "foo">>

(***************************************************************************)
(* C4: in edit and in the with-blocks of ctx_edit, ctx_edit_sgml and       *)
(* ctx_edit_html, an error of the caller's code other than WriteBack /     *)
(* DoNotWriteBack, and the missing-item error of the read, reaches the     *)
(* caller, and the store is as it was before the call.                     *)
(***************************************************************************)
CallerCodeFailed ==
    /\ last.op \in {"edit", "exit"}
    /\ last.sig.t = "raise"
    /\ last.sig.e = "Error"

ReadOfMissingItem ==
    /\ last.op \in {"edit", "enter"}
    /\ ~Exists(last.pre, last.id)

SingleItemErrorsPropagate ==
    /\ CallerCodeFailed =>
           last.exc = "Error" /\ last.writes = <<>> /\ store = last.pre
    /\ ReadOfMissingItem =>
           /\ last.exc = "NoSuchItem" /\ last.writes = <<>> /\ store = last.pre
           /\ last.op = "enter" => session = NoSession

\* a with-block over a wrapped record fails after it has put new content in the record
SingleItemErrorSeen ==
    /\ CallerCodeFailed
    /\ last.op = "exit"
    /\ last.kind = "wrap"
    /\ last.sess.rec.data # last.sess.content
    /\ last.sess.rec.data # None
    /\ last.sess.rec.write_back = "True"

(***************************************************************************)
(* Batch operations: the generators edit_iter, edit_html_iter and          *)
(* element_iter driven by a consumer, and the loops of edit_batch and      *)
(* edit_html_batch, one item a step.                                       *)
(***************************************************************************)
InitBatch ==
    /\ store \in {st \in [Ids -> InitContents \cup {Absent}] :
                    /\ st["A"] \in {Doc(TRUE, XHTML_DOCTYPE, <<"foo", "bar", "foo">>),
                                    Doc(FALSE, "none", <<"bar", "bar">>)}
                    /\ st["B"] = Doc(TRUE, XHTML_DOCTYPE, <<"bar", "bar">>)
                    /\ st["C"] = Absent}
    /\ session = NoSession
    /\ last = NoCall(store)
    /\ gen = NoGen
    /\ stack = NoStack

\* the manifest_id_s a caller passes: a list of ids, one of them without a file
IdArgs == {<<"A", "B">>, <<"A", "C", "B">>}

\* the paths a caller passes to element_iter: elements "foo", or elements no file has
Paths == {"foo", "nil"}

\* no batch call has been made yet
Idle == gen.st = "none" /\ session = NoSession /\ last.op = "init"

Started(op, wrap, cm, more, pred, path, ids) ==
    [NoGen EXCEPT !.op = op, !.wrap = wrap, !.cm = cm, !.more = more, !.pred = pred,
                  !.path = path, !.args = ids, !.todo = ids,
                  !.st = IF op \in {"edit_batch", "edit_html_batch"} THEN "loop"
                         ELSE "new"]

\* edit_iter(manifest_id_s, bc, predicate, wrap_me, yield_cm) is called
StartEditIter ==
    /\ Idle
    /\ \E ids \in IdArgs \cup {manifest_iter(store)}, pred \in Preds,
          mode \in {"plain", "wrap", "cm"} :
         gen' = Started("edit_iter", mode = "wrap", mode = "cm", FALSE, pred, "none", ids)
    /\ UNCHANGED <<store, session, last>>
    /\ UNCHANGED stack

\* edit_html_iter(bc, predicate, wrap_me, yield_cm) is called
StartEditHtmlIter ==
    /\ Idle
    /\ \E pred \in Preds, mode \in {"plain", "wrap", "cm"} :
         gen' = Started("edit_html_iter", mode = "wrap", mode = "cm", FALSE, pred, "none",
                        text_iter(store))
    /\ UNCHANGED <<store, session, last>>
    /\ UNCHANGED stack

\* element_iter(path, bc, predicate=..., more_info=...) is called
StartElementIter ==
    /\ Idle
    /\ \E pred \in Preds, path \in Paths, more \in BOOLEAN :
         gen' = Started("element_iter", TRUE, FALSE, more, pred, path, text_iter(store))
    /\ UNCHANGED <<store, session, last>>
    /\ UNCHANGED stack

\* edit_batch(operate, manifest_id_s, bc, predicate) is called
StartEditBatch ==
    /\ Idle
    /\ \E ids \in IdArgs \cup {manifest_iter(store)}, pred \in Preds :
         gen' = Started("edit_batch", TRUE, FALSE, FALSE, pred, "none", ids)
    /\ UNCHANGED <<store, session, last>>
    /\ UNCHANGED stack

\* edit_html_batch(operate, bc, predicate) is called
StartEditHtmlBatch ==
    /\ Idle
    /\ \E pred \in Preds :
         gen' = Started("edit_html_batch", FALSE, FALSE, FALSE, pred, "none",
                        text_iter(store))
    /\ UNCHANGED <<store, session, last>>
    /\ UNCHANGED stack

\* a value that is not None and is no content: the 0 of edit_worker.send(0)
Zero == [int |-> "0"]

\* what the consumer may do with the suspended generator
Inputs(g, s) ==
    {GenNext}
    \cup (IF g.st \in {"item", "cm", "els"}
          THEN {GenThrow("Error", None), GenThrow("GeneratorExit", None)} ELSE {})
    \cup (IF g.st = "item"
          THEN {GenThrow("DoNotWriteBack", None)}
               \cup {GenThrow("WriteBack", c) : c \in NewContents(s.content)}
               \cup (IF s.kind = "plain"
                     THEN {GenSend(c) : c \in NewContents(s.content)}
                     ELSE {GenSend(Zero)})
          ELSE {})

gen_resume(st, g, s, inp) ==
    IF g.op = "edit_iter" THEN edit_iter(st, g, s, inp)
    ELSE IF g.op = "edit_html_iter" THEN edit_html_iter(st, g, s, inp)
    ELSE element_iter(st, g, s, inp)

\* the consumer resumes the generator: next(), send(v), throw(e) or close()
GenResume ==
    /\ gen.op \in {"edit_iter", "edit_html_iter", "element_iter"}
    /\ gen.st \in {"new", "item", "cm", "els"}
    /\ \E inp \in Inputs(gen, session) :
         LET o == gen_resume(store, gen, session, inp)
         IN  /\ gen' = o.gen
             /\ session' = o.sess
             /\ store' = o.res.store
             /\ last' = Call(IF session # NoSession
                                /\ (o.gen.todo # gen.todo \/ o.gen.st \in {"done", "dead"})
                             THEN "leave" ELSE "resume",
                             gen.op, session.id, store, inp, session, o.res)
    /\ UNCHANGED stack

\* the consumer removes data['etree'] from the record edit_html_iter yielded
BodyDelEtree ==
    /\ session.wrapped
    /\ session.rec.data = TreeRef
    /\ gen.op = "edit_html_iter"
    /\ session' = [session EXCEPT !.rec.data = None]
    /\ UNCHANGED <<store, last, gen>>
    /\ UNCHANGED stack

\* a mutant of batch_status: the except clause is missing
batch_status_no_except(status, fid, res) == [status EXCEPT ![fid] = "True"]

\* success_status[fid] = True / except: success_status[fid] = False
batch_status(status, fid, res) ==
    [status EXCEPT ![fid] = IF res.exc = "none" THEN "True" ELSE "False"]

\* what operate does in edit_batch, given data['data']
BatchOutcomes(st, fid) ==
    IF Exists(st, fid) THEN Outcomes(st[fid]) \cup {Return(None)} ELSE {Return(None)}

\* what operate does in edit_html_batch, given the tree: it changes it in place,
\* then returns or raises
HtmlBatchOutcomes(st, fid) ==
    IF Exists(st, fid)
    THEN LET tree == html_fromstring(st[fid])
         IN  {[body |-> b, out |-> out] :
                 b \in Edits(tree.body) \cup {<<Unserializable>>},
                 out \in {Return(None), Raise("DoNotWriteBack", None),
                          Raise("Error", None)}}
    ELSE {[body |-> <<>>, out |-> Return(None)]}

\* the session of the item as operate leaves it
batch_session(st, g, fid, body, out) ==
    IF ~Exists(st, fid) THEN NoSession
    ELSE IF g.op = "edit_batch"
    THEN LET o == ctx_edit_open(st, fid, TRUE)
         IN  IF out.t = "return" THEN [o.sess EXCEPT !.rec.data = out.v] ELSE o.sess
    ELSE [ctx_edit_sgml_open(st, fid, "html").sess EXCEPT !.tree.body = body]

\* edit_batch / edit_html_batch: one turn of the for loop, or the return
BatchStep ==
    /\ gen.st = "loop"
    /\ IF gen.todo = <<>>
       THEN /\ gen' = [gen EXCEPT !.st = "done"]
            /\ last' = Call("return", gen.op, "none", store, Return(None), NoSession,
                            Returned(store, FALSE))
            /\ UNCHANGED <<store, session>>
       ELSE LET fid == Head(gen.todo)
                g1 == [gen EXCEPT !.todo = Tail(gen.todo)]
            IN  IF ~predicate(gen.pred, fid, id_to_href(fid), id_to_mime(fid))
                THEN /\ gen' = g1
                     /\ UNCHANGED <<store, session, last>>
                ELSE \E w \in (IF gen.op = "edit_batch"
                               THEN {[body |-> <<>>, out |-> out] :
                                        out \in BatchOutcomes(store, fid)}
                               ELSE HtmlBatchOutcomes(store, fid)) :
                       LET r == IF gen.op = "edit_batch"
                                THEN edit_batch_item(store, fid, w.out)
                                ELSE edit_html_batch_item(store, fid, w.body, w.out)
                       IN  /\ gen' = [g1 EXCEPT
                                         !.status = batch_status(@, fid, r),
                                         !.reads = Append(@, fid)]
                           /\ store' = r.store
                           /\ last' = Call("item", gen.op, fid, store, w.out,
                                           batch_session(store, gen, fid, w.body, w.out),
                                           r)
                           /\ UNCHANGED session
    /\ UNCHANGED stack

NextBatch ==
    \/ StartEditIter \/ StartEditHtmlIter \/ StartElementIter
    \/ StartEditBatch \/ StartEditHtmlBatch
    \/ GenResume \/ BatchStep
    \/ BodySetData \/ BodySetWriteBack \/ BodyEditTree \/ BodyDelEtree

SpecBatch == InitBatch /\ [][NextBatch]_vars

(***************************************************************************)
(* Every operation on single items and every batch operation, from the     *)
(* files of InitBatch.                                                     *)
(***************************************************************************)
Init == InitBatch

Next == NextEdit \/ NextBatch

Spec == Init /\ [][Next]_vars

(***************************************************************************)
(* C2 (as stated): once the caller's code has signalled discard - it       *)
(* raised DoNotWriteBack, or it cleared or removed the record's write_back *)
(* flag, or it removed the record's content - the store is not written for *)
(* that item.  Read in the claim's favour: the code did not go on to raise *)
(* WriteBack.                                                              *)
(***************************************************************************)
Ended(call) == call.op = "edit" \/ Closing(call)

RaisedDiscard(call) == call.sig.e = "DoNotWriteBack"

FlagCleared(call) ==
    call.sess.wrapped /\ call.sess.rec.write_back # "True" /\ call.sig.e # "WriteBack"

ContentRemoved(call) ==
    call.sess.wrapped /\ call.sess.rec.data = None /\ call.sig.e # "WriteBack"

NotWritten(call) == call.writes = <<>> /\ store = call.pre

DataRemoved(call) == ContentRemoved(call) /\ call.sess.kind = "wrap"

NormalClose(call) ==
    /\ Closing(call)
    /\ call.sess.wrapped
    /\ call.sig.t \in {"return", "next"}
    /\ call.sess.kind = "html" => CanSerialize(call.sess.tree)

\* the content the record stands for when the session closes
RecordContent(s) == IF s.kind = "html" THEN tostring(s, s.tree) ELSE s.rec.data

WrittenAs(call, content) ==
    /\ call.writes = <<<<call.id, content>>>>
    /\ store = [call.pre EXCEPT ![call.id] = content]

WrappedWrittenIffPresentAndChanged ==
    NormalClose(last) =>
        IF /\ last.sess.rec.write_back = "True"
           /\ last.sess.rec.data # None
           /\ RecordContent(last.sess) # last.sess.content
        THEN WrittenAs(last, RecordContent(last.sess))
        ELSE NotWritten(last)

(***************************************************************************)
(* C3 (amended): a record of ctx_edit / edit_iter as stated; a record of   *)
(* edit_html_iter is written exactly when its write_back flag is set and   *)
(* the serialized tree differs from what was read, whether or not 'etree'  *)
(* is still in the record.                                                 *)
(***************************************************************************)
WrappedWrittenIffFlagAndChanged ==
    NormalClose(last) =>
        IF /\ last.sess.rec.write_back = "True"
           /\ last.sess.kind = "wrap" => last.sess.rec.data # None
           /\ RecordContent(last.sess) # last.sess.content
        THEN WrittenAs(last, RecordContent(last.sess))
        ELSE NotWritten(last)

\* a record of edit_html_iter whose tree was changed is closed with its flag set
WrappedWrittenSeen ==
    /\ NormalClose(last)
    /\ last.op = "leave"
    /\ last.kind = "edit_html_iter"
    /\ last.sess.rec.write_back = "True"
    /\ last.sess.rec.data = TreeRef
    /\ last.writes # <<>>

(***************************************************************************)
(* C5: when edit_batch or edit_html_batch returns, the status map has an   *)
(* entry for exactly the candidates the predicate accepted, and the entry  *)
(* of an item is False exactly when an error escaped while its file was    *)
(* read, transformed, serialized or written.                               *)
(***************************************************************************)
InBatch == gen.op \in {"edit_batch", "edit_html_batch"}

Accepted(id) ==
    InSeq(id, gen.args) /\ predicate(gen.pred, id, id_to_href(id), id_to_mime(id))

\* an error of the item's processing that nothing absorbs
ErrorEscaped(call) ==
    \/ ~Exists(call.pre, call.id)
    \/ call.sig.e = "Error"
    \/ /\ call.kind = "edit_html_batch"
       /\ call.sig.t = "return"
       /\ ~CanSerialize(call.sess.tree)

Rejected(id) ==
    InSeq(id, gen.args) /\ ~predicate(gen.pred, id, id_to_href(id), id_to_mime(id))

\* the candidates taken from the iterator so far
Consumed == SubSeq(gen.args, 1, Len(gen.args) - Len(gen.todo))

RejectedSkipped ==
    /\ \A id \in Ids :
         Rejected(id) =>
             /\ ~InSeq(id, gen.reads)
             /\ \A n \in 1..Len(gen.yields) : gen.yields[n].id # id
             /\ gen.status[id] = "Missing"
             /\ gen.op # "none" => \A n \in 1..Len(last.writes) : last.writes[n][1] # id
             /\ session.id # id
    /\ gen.op = "element_iter" =>
           gen.k = Len(SelectSeq(Consumed, Accepted))

\* predicate lambda id: id == "A" over A and B: A was visited, B was not
RejectedSkippedSeen ==
    /\ gen.op = "edit_batch"
    /\ gen.pred = "isA"
    /\ gen.args = <<"A", "B">>
    /\ gen.st = "done"
    /\ gen.status["A"] = "True"
    /\ gen.status["B"] = "Missing"
    /\ gen.reads = <<"A">>

(***************************************************************************)
(* re_sub(pattern, repl, manifest_id_s, bc, errors, more_info).  The       *)
(* pattern matches one token of a body; gen.path holds it.  repl is a      *)
(* string or a callable.                                                   *)
(***************************************************************************)
\* the strings a caller passes as repl: '' (the default), the text the pattern
\* matches, another text
ReplStrings == {"empty", "same", "baz"}

Repls == ReplStrings \cup {"callable"}

Errors == {"ignore", "raise", "skip"}

\* a string that stands in the place of a match: its tokens
Text(tokens) == [text |-> tokens]

\* what a string repl puts in the place of a match of pattern
expand(repl, pattern) ==
    IF repl = "empty" THEN Text(<<>>)
    ELSE IF repl = "same" THEN Text(<<pattern>>)
    ELSE Text(<<"baz">>)

\* an object that is neither a string nor None
NotAString == [int |-> 1]

\* what a callable repl does with one match: it returns a string (the matched text
\* or another), returns None, returns an object that is no string, or raises
ReplOutcomes(pattern) ==
    {Return(Text(<<pattern>>)), Return(Text(<<"baz">>)), Return(None),
     Return(NotAString), Raise("Error", None)}

\* the number of matches of pattern in a body (finditer)
RECURSIVE count(_, _)
count(pattern, body) ==
    IF body = <<>> THEN 0
    ELSE (IF Head(body) = pattern THEN 1 ELSE 0) + count(pattern, Tail(body))

\* what repl does for each match of an item, one outcome a match
ReplRuns(g, st, id) ==
    LET n == IF Exists(st, id) THEN count(g.path, st[id].body) ELSE 0
    IN  IF g.repl = "callable"
        THEN [1..n -> ReplOutcomes(g.path)]
        ELSE {[m \in 1..n |-> Return(expand(g.repl, g.path))]}

\* pattern.sub under way: the text built so far, whether a piece of it is no
\* string, the counters i and j, the match infos handed to repl, and the exception
\* that ended it
SubState(i, j) ==
    [new |-> <<>>, bad |-> FALSE, i |-> i, j |-> j, infos |-> <<>>, exc |-> "none"]

\* what repl returned is kept as the next piece: None is taken for the empty
\* string, and an object that is no string is found only when the pieces are joined
Replaced(a, v) ==
    IF v = None THEN a
    ELSE IF v = NotAString THEN [a EXCEPT !.bad = TRUE]
    ELSE [a EXCEPT !.new = @ \o v.text]

\* def repl(m): the wrapper of the caller's _repl under more_info
repl_wrapper(g, id, old_j, a, out) ==
    LET a1 == [a EXCEPT !.infos = Append(@, Yielded(id, a.i, a.j, g.k))]
    IN  IF out.t = "raise"
        THEN IF g.errors = "skip" THEN [a1 EXCEPT !.j = old_j, !.exc = out.e]
             ELSE IF g.errors = "raise" THEN [a1 EXCEPT !.exc = out.e]
             ELSE \* 'ignore': the wrapper returns None
                  a1
        ELSE Replaced([a1 EXCEPT !.i = @ + 1, !.j = @ + 1], out.v)

\* repl called for one match
repl_call(g, id, old_j, a, out) ==
    IF g.repl = "callable" /\ g.more THEN repl_wrapper(g, id, old_j, a, out)
    ELSE IF out.t = "raise" THEN [a EXCEPT !.exc = out.e]
    ELSE Replaced(a, out.v)

\* a mutant of fn_sub: the first match alone is replaced (count=1)
RECURSIVE fn_sub_count1(_, _, _, _, _, _)
fn_sub_count1(g, id, old_j, outs, body, a) ==
    IF body = <<>>
    THEN IF a.bad THEN [a EXCEPT !.exc = "TypeError"] ELSE a
    ELSE IF Head(body) # g.path
    THEN fn_sub_count1(g, id, old_j, outs, Tail(body), [a EXCEPT !.new = Append(@, Head(body))])
    ELSE LET r == repl_call(g, id, old_j, a, Head(outs))
         IN  IF r.exc # "none" THEN r
             ELSE IF r.bad THEN [r EXCEPT !.exc = "TypeError"]
             ELSE [r EXCEPT !.new = @ \o Tail(body)]

\* fn(repl, string): the matches replaced from left to right
RECURSIVE fn_sub(_, _, _, _, _, _)
fn_sub(g, id, old_j, outs, body, a) ==
    IF body = <<>>
    THEN \* the pieces are joined
         IF a.bad THEN [a EXCEPT !.exc = "TypeError"] ELSE a
    ELSE IF Head(body) # g.path
    THEN fn_sub(g, id, old_j, outs, Tail(body), [a EXCEPT !.new = Append(@, Head(body))])
    ELSE LET r == repl_call(g, id, old_j, a, Head(outs))
         IN  IF r.exc # "none" THEN r
             ELSE fn_sub(g, id, old_j, Tail(outs), Tail(body), r)

\* a turn of re_sub's loop: the call in progress after it, its result, and the
\* error raised inside the try block, if any
SubOut(g, res, err) == [gen |-> g, res |-> res, err |-> err]

\* a mutant of re_sub_except: the `continue` of 'skip' is missing
re_sub_except_no_continue(st, g, err) ==
    IF g.errors = "raise" THEN SubOut([g EXCEPT !.st = "dead"], Raised(st, err), err)
    ELSE IF g.repl = "callable"
    THEN SubOut([g EXCEPT !.k = @ + 1], Returned(st, FALSE), err)
    ELSE SubOut(g, Returned(st, FALSE), err)

\* a mutant of re_sub_except: 'raise' is taken for 'ignore'
re_sub_except_swallow(st, g, err) ==
    IF g.repl = "callable" /\ g.errors # "skip"
    THEN SubOut([g EXCEPT !.k = @ + 1], Returned(st, FALSE), err)
    ELSE SubOut(g, Returned(st, FALSE), err)

\* a mutant of re_sub_except: 'raise' and 'skip' do what the docstring says of them
re_sub_except_as_documented(st, g, err) ==
    IF g.errors = "skip" THEN SubOut([g EXCEPT !.st = "dead"], Raised(st, err), err)
    ELSE IF g.repl = "callable" /\ g.errors # "raise"
    THEN SubOut([g EXCEPT !.k = @ + 1], Returned(st, FALSE), err)
    ELSE SubOut(g, Returned(st, FALSE), err)

\* re_sub: the except clause of the loop
re_sub_except(st, g, err) ==
    IF g.errors = "raise" THEN SubOut([g EXCEPT !.st = "dead"], Raised(st, err), err)
    ELSE IF g.repl = "callable" /\ g.errors # "skip"
    THEN SubOut([g EXCEPT !.k = @ + 1], Returned(st, FALSE), err)
    ELSE SubOut(g, Returned(st, FALSE), err)

\* re_sub: one turn of the loop `for id_ in manifest_id_s`
re_sub_turn(st, g, outs) ==
    LET id_ == Head(g.todo)
        old_j == g.j
        g1 == [g EXCEPT !.todo = Tail(@), !.reads = Append(@, id_),
                        !.i = IF g.repl = "callable" THEN 1 ELSE @]
    IN  IF ~Exists(st, id_) THEN re_sub_except(st, g1, "NoSuchItem")
        ELSE LET string == readfile(st, id_)
                 a == fn_sub(g1, id_, old_j, outs, string.body, SubState(g1.i, g1.j))
                 g2 == [g1 EXCEPT !.i = a.i, !.j = a.j, !.yields = @ \o a.infos]
             IN  IF a.exc # "none" THEN re_sub_except(st, g2, a.exc)
                 ELSE LET string_new == [string EXCEPT !.body = a.new]
                          w == write_if_changed(st, id_, string, string_new)
                      IN  SubOut([g2 EXCEPT !.k = IF g.repl = "callable" THEN @ + 1 ELSE @],
                                 [w EXCEPT !.ret = FALSE], "none")

InitRe ==
    /\ \E a \in {Doc(TRUE, XHTML_DOCTYPE, <<"foo", "bar", "foo">>),
                  Doc(FALSE, "none", <<"bar", "bar">>)} :
         store = [id \in Ids |-> IF id = "A" THEN a
                                 ELSE IF id = "B" THEN Doc(TRUE, XHTML_DOCTYPE, <<"foo">>)
                                 ELSE Absent]
    /\ session = NoSession
    /\ last = NoCall(store)
    /\ gen = NoGen
    /\ stack = NoStack

\* re_sub(pattern, repl, manifest_id_s, errors=..., more_info=...) is called
StartReSub ==
    /\ Idle
    /\ \E ids \in IdArgs \cup {text_iter(store)}, pattern \in Paths, repl \in Repls,
          errors \in Errors, more \in BOOLEAN :
         LET c == IF repl = "callable" THEN 1 ELSE 0
         IN  gen' = [NoGen EXCEPT !.op = "re_sub", !.more = more, !.path = pattern,
                                  !.repl = repl, !.errors = errors, !.args = ids,
                                  !.todo = ids, !.st = "sub", !.i = c, !.j = c, !.k = c]
    /\ UNCHANGED <<store, session, last>>
    /\ UNCHANGED stack

\* re_sub: one turn of the for loop, or the return; the record of the call keeps
\* the counters as they were before the turn
ReSubStep ==
    /\ gen.st = "sub"
    /\ IF gen.todo = <<>>
       THEN /\ gen' = [gen EXCEPT !.st = "done"]
            /\ last' = Call("return", gen.op, "none", store, Return(None), NoSession,
                            Returned(store, None))
            /\ UNCHANGED <<store, session>>
       ELSE \E outs \in ReplRuns(gen, store, Head(gen.todo)) :
              LET o == re_sub_turn(store, gen, outs)
              IN  /\ gen' = o.gen
                  /\ store' = o.res.store
                  /\ last' = Call("sub", gen.op, Head(gen.todo), store,
                                  [t |-> "sub", e |-> o.err, v |-> outs], gen, o.res)
                  /\ UNCHANGED session
    /\ UNCHANGED stack

(***************************************************************************)
(* re_iter(pattern, manifest_id_s, bc, errors, more_info): a generator of  *)
(* the matches.  gen.cur is the file whose matches are being yielded and   *)
(* gen.els the number of its matches still to come.                        *)
(***************************************************************************)
\* a mutant of re_iter_turned: a file without a match does not count
re_iter_turned_by_matches(g) == IF g.more /\ g.i > 1 THEN [g EXCEPT !.k = @ + 1] ELSE g

\* re_iter: k += 1 at the end of a turn of the loop (more_info only)
re_iter_turned(g) == IF g.more THEN [g EXCEPT !.k = @ + 1] ELSE g

\* a mutant of re_iter_for: a file that cannot be read ends the loop under
\* every policy
RECURSIVE re_iter_for_strict(_, _)
re_iter_for_strict(st, g) ==
    IF g.todo = <<>> THEN Stop(st, g)
    ELSE LET id_ == Head(g.todo)
             g1 == [g EXCEPT !.todo = Tail(@), !.reads = Append(@, id_), !.cur = id_]
         IN  IF ~Exists(st, id_)
             THEN Dead(g1, Raised(st, "NoSuchItem"))
             ELSE LET n == count(g.path, readfile(st, id_).body)
                      g2 == [g1 EXCEPT !.i = IF g.more THEN 1 ELSE @,
                                       !.counts = Append(@, n)]
                  IN  IF n = 0 THEN re_iter_for_strict(st, re_iter_turned(g2))
                      ELSE Out([g2 EXCEPT !.st = "match", !.els = n - 1,
                                          !.yields = Append(@, Yielded(id_, g2.i, g2.j, g2.k))],
                               NoSession, Returned(st, FALSE))

\* re_iter: the for loop, from the next id to the next yield
RECURSIVE re_iter_for(_, _)
re_iter_for(st, g) ==
    IF g.todo = <<>> THEN Stop(st, g)
    ELSE LET id_ == Head(g.todo)
             g1 == [g EXCEPT !.todo = Tail(@), !.reads = Append(@, id_), !.cur = id_]
         IN  IF ~Exists(st, id_)
             THEN \* string = bc.readfile(id_) raises
                  IF g.errors = "raise" THEN Dead(g1, Raised(st, "NoSuchItem"))
                  ELSE IF g.more /\ g.errors = "skip" THEN re_iter_for(st, g1)
                  ELSE re_iter_for(st, re_iter_turned(g1))
             ELSE LET n == count(g.path, readfile(st, id_).body)
                      g2 == [g1 EXCEPT !.i = IF g.more THEN 1 ELSE @,
                                       !.counts = Append(@, n)]
                  IN  IF n = 0 THEN re_iter_for(st, re_iter_turned(g2))
                      ELSE Out([g2 EXCEPT !.st = "match", !.els = n - 1,
                                          !.yields = Append(@, Yielded(id_, g2.i, g2.j, g2.k))],
                               NoSession, Returned(st, FALSE))

\* re_iter resumed by next()
re_iter(st, g) ==
    IF g.st = "new" THEN re_iter_for(st, g)
    ELSE LET g1 == IF g.more THEN [g EXCEPT !.i = @ + 1, !.j = @ + 1] ELSE g
         IN  IF g.els > 0
             THEN Out([g1 EXCEPT !.els = @ - 1,
                                 !.yields = Append(@, Yielded(g.cur, g1.i, g1.j, g1.k))],
                      NoSession, Returned(st, FALSE))
             ELSE re_iter_for(st, re_iter_turned(g1))

\* re_iter(pattern, manifest_id_s, errors=..., more_info=...) is called
StartReIter ==
    /\ Idle
    /\ \E ids \in IdArgs \cup {text_iter(store)}, pattern \in Paths, errors \in Errors,
          more \in BOOLEAN :
         LET c == IF more THEN 1 ELSE 0
         IN  gen' = [NoGen EXCEPT !.op = "re_iter", !.more = more, !.path = pattern,
                                  !.errors = errors, !.args = ids, !.todo = ids,
                                  !.st = "new", !.i = c, !.j = c, !.k = c]
    /\ UNCHANGED <<store, session, last>>
    /\ UNCHANGED stack

\* the consumer of re_iter asks for the next match
ReIterNext ==
    /\ gen.op = "re_iter"
    /\ gen.st \in {"new", "match"}
    /\ LET o == re_iter(store, gen)
       IN  /\ gen' = o.gen
           /\ store' = o.res.store
           /\ last' = Call("resume", gen.op, gen.cur, store, GenNext, gen, o.res)
    /\ UNCHANGED session
    /\ UNCHANGED stack

NextRe == StartReSub \/ ReSubStep \/ StartReIter \/ ReIterNext

SpecRe == InitRe /\ [][NextRe]_vars

(***************************************************************************)
(* C7: re_sub writes an item only if the substituted content differs from  *)
(* the content it read for that item; an item with no match, or whose      *)
(* replacements all reproduce the matched text, is not written.            *)
(***************************************************************************)
Reproduced(call) ==
    \A m \in 1..Len(call.sig.v) : call.sig.v[m] = Return(Text(<<gen.path>>))

ReSubWritesOnlyIfDiffers ==
    last.op = "sub" =>
        /\ \A n \in 1..Len(last.writes) :
             /\ last.writes[n][1] = last.id
             /\ last.writes[n][2] # last.pre[last.id]
        /\ last.writes = <<>> => store = last.pre
        /\ Reproduced(last) => NotWritten(last)

\* both matches of "foo" in A are replaced by "foo"
ReSubReproducedSeen ==
    /\ last.op = "sub"
    /\ last.id = "A"
    /\ Len(last.sig.v) = 2
    /\ Reproduced(last)
    /\ gen.repl = "callable"
    /\ NotWritten(last)

(***************************************************************************)
(* An EditStack in use: entries are got and changed, the stack is closed   *)
(* by the end of its with-block, by clear() or by __del__.                 *)
(***************************************************************************)
InitStack ==
    /\ store = [id \in Ids |-> IF id = "A" THEN Doc(TRUE, XHTML_DOCTYPE, <<"foo">>)
                               ELSE IF id = "B" THEN Doc(FALSE, "none", <<"bar">>)
                               ELSE Absent]
    /\ session = NoSession
    /\ last = NoCall(store)
    /\ gen = NoGen
    /\ stack \in {[NoStack EXCEPT !.type = t] : t \in StackTypes}

\* stack[id], stack.read_id(key), read_href(key), read_basename(key), read_bookpath(key)
StackGet ==
    /\ \E by \in KeyKinds, of \in Ids :
         LET o == EditStack_read(store, stack, by, of)
         IN  /\ Len(o.stack.entries) <= MaxOpens
             /\ stack' = o.stack
             /\ last' = Call("get", by, of, store, Return(None), stack,
                             Result(store, <<>>, o.h, o.exc))
    /\ UNCHANGED <<store, session, gen>>

\* the content the caller puts in an entry in the place of the content it holds
Rewritten(content) ==
    [content EXCEPT !.body = IF @ \in {<<"baz">>, <<"qux">>} THEN <<"qux">> ELSE <<"baz">>]

\* the caller changes an entry it holds, cached or got before a close:
\* entry['data'] = ...
StackMutate ==
    /\ \E h \in 1..Len(stack.entries) :
         /\ Rewritten(stack.entries[h].data) # stack.entries[h].data
         /\ stack' = [stack EXCEPT !.entries[h].data = Rewritten(@)]
    /\ UNCHANGED <<store, session, last, gen>>

\* __exit__, and clear; __del__ is clear (__del__ = clear)
CloseOps == {"exit", "clear"}

\* how a close is reached: the with-block ends or its body raises; clear() (or
\* __del__) is called, while an exception is being handled or not
CloseSignals(op) == {Return(None), Raise("Error", None)}

\* the with-block over the stack is left (__exit__); stack.clear() or __del__
StackClose ==
    /\ \E op \in CloseOps :
         \E sig \in CloseSignals(op) :
           LET o == IF op = "exit" THEN EditStack_exit(store, stack, sig)
                    ELSE EditStack_clear(store, stack, sig)
           IN  /\ stack' = o.stack
               /\ store' = o.res.store
               /\ last' = Call(op, "EditStack", "none", store, sig, stack, o.res)
    /\ UNCHANGED <<session, gen>>

NextStack == StackGet \/ StackMutate \/ StackClose

SpecStack == InitStack /\ [][NextStack]_vars

\* the session behind the cached entry of id
Opened(stk, id) ==
    CHOOSE cb \in {stk.edit_stack[n] : n \in 1..Len(stk.edit_stack)} : cb.h = stk.data[id]

Cached(stk, id) == stk.data[id] # 0

(***************************************************************************)
(* C8 (as stated): at every close of an EditStack - the end of its         *)
(* with-block, or clear(), also a clear() called while an error is being   *)
(* handled - every cached entry whose content differs from what was read   *)
(* is written, no unchanged entry is written, and the cache is empty       *)
(* afterwards.  Read in the claim's favour: the entry's write_back flag is *)
(* set.                                                                    *)
(***************************************************************************)
WrittenAtClose(call, id) == \E n \in 1..Len(call.writes) : call.writes[n][1] = id

StackCloseFlushes ==
    last.op \in CloseOps =>
        /\ \A id \in Ids :
             Cached(last.sess, id) =>
                 LET e == last.sess.entries[last.sess.data[id]]
                     content == Opened(last.sess, id).sess.content
                 IN  /\ (e.write_back = "True" /\ e.data # content) =>
                            /\ InSeq(<<id, e.data>>, last.writes)
                            /\ store[id] = e.data
                     /\ e.data = content => ~WrittenAtClose(last, id)
        /\ stack.data = NoStack.data

(***************************************************************************)
(* C9: a close of an EditStack with nothing cached - a second close, or    *)
(* __del__ after a close - writes nothing, leaves the store as it is and   *)
(* raises nothing; every close leaves the stack with no cache and no       *)
(* session; and what a close writes is the content of an entry cached at   *)
(* that close, so an entry left over from an earlier close is never        *)
(* written, whatever was done to it since.                                 *)
(***************************************************************************)
NothingCached(stk) == \A id \in Ids : ~Cached(stk, id)

StackCloseIdempotent ==
    last.op \in CloseOps =>
        /\ NothingCached(stack) /\ stack.edit_stack = <<>>
        /\ NothingCached(last.sess) =>
               last.writes = <<>> /\ store = last.pre /\ last.exc = "none"
        /\ \A n \in 1..Len(last.writes) :
             LET id == last.writes[n][1]
             IN  /\ Cached(last.sess, id)
                 /\ last.writes[n][2] = last.sess.entries[last.sess.data[id]].data

\* entries that no session holds any more
Stale(stk, h) == \A n \in 1..Len(stk.edit_stack) : stk.edit_stack[n].h # h

\* a stack with nothing cached is closed while the caller holds an entry of an
\* earlier close that it has changed since: the entry has content that is not in
\* the store
StaleEntrySeen ==
    /\ last.op \in CloseOps
    /\ NothingCached(last.sess)
    /\ \E h \in 1..Len(last.sess.entries) :
         /\ Stale(last.sess, h)
         /\ last.sess.entries[h].write_back = "True"
         /\ \A id \in Ids : store[id] # last.sess.entries[h].data

(***************************************************************************)
(* C10: between two closes of an EditStack each file is read at most once: *)
(* a get of an id that is cached, through any key, returns the cached      *)
(* entry and neither reads the store nor opens a session.                  *)
(***************************************************************************)
StackReadsOnce ==
    /\ \A id \in Ids : stack.reads[id] <= 1
    /\ \A id \in Ids : Cached(stack, id) <=> stack.reads[id] = 1
    /\ (last.op = "get" /\ last.id \in Ids /\ Cached(last.sess, last.id)) =>
           /\ last.ret = last.sess.data[last.id]
           /\ last.exc = "none"
           /\ stack.data = last.sess.data
           /\ stack.edit_stack = last.sess.edit_stack
           /\ stack.reads = last.sess.reads
           /\ Len(stack.entries) = Len(last.sess.entries)

\* A, cached by an earlier get, is got again by its href
StackCachedGetSeen ==
    /\ last.op = "get"
    /\ last.kind = "href"
    /\ last.id = "A"
    /\ Cached(last.sess, "A")
    /\ last.sess.entries[last.sess.data["A"]].data # last.pre["A"]
    /\ last.ret = last.sess.data["A"]

(***************************************************************************)
(* C11 (as stated): however the with-block over an EditStack is left, also *)
(* by an error raised in its body, the stack is released - no cache, no    *)
(* session - and every entry changed before the block was left is written. *)
(* Read in the claim's favour: the entry's write_back flag is set.         *)
(***************************************************************************)
Released(stk) == NothingCached(stk) /\ stk.edit_stack = <<>>

StackExitWritesModified ==
    last.op = "exit" =>
        /\ Released(stack)
        /\ \A n \in 1..Len(last.sess.edit_stack) :
             LET cb == last.sess.edit_stack[n]
                 e == last.sess.entries[cb.h]
             IN  (e.write_back = "True" /\ e.data # cb.sess.content) =>
                     /\ InSeq(<<cb.sess.id, e.data>>, last.writes)
                     /\ store[cb.sess.id] = e.data

(***************************************************************************)
(* C12 (as stated): a get on a TextEditStack of an existing text item that *)
(* is not cached opens a tree session for it: the get succeeds and returns *)
(* the parsed tree of the item, which is then cached.                      *)
(***************************************************************************)
TextGet ==
    /\ last.op = "get"
    /\ last.sess.type = "TextEditStack"
    /\ Exists(last.pre, last.id)
    /\ HasXhtml(id_to_mime(last.id))
    /\ ~Cached(last.sess, last.id)

TextStackGetOpensTree ==
    TextGet =>
        /\ last.exc = "none"
        /\ last.ret = Len(last.sess.entries) + 1
        /\ Cached(stack, last.id)
        /\ stack.entries[last.ret] = html_fromstring(last.pre[last.id])

(***************************************************************************)
(* C13: with errors='raise', re_iter and re_sub stop at the first item     *)
(* whose processing raises - the read of a missing file, or repl raising   *)
(* on a match: the error reaches the caller, the failing item is not       *)
(* written, and it is the last item read.                                  *)
(***************************************************************************)
InRe == gen.op \in {"re_iter", "re_sub"}

\* the n-th item read is one whose file is missing
MissingRead(n) == ~Exists(store, gen.reads[n])

\* the last turn of re_sub's loop raised inside its try block
SubFailed == last.op = "sub" /\ last.sig.e # "none"

Stopped ==
    /\ gen.st = "dead"
    /\ last.exc # "none"
    /\ NotWritten(last)
    /\ gen.reads = Consumed

NextPolicy == NextRe \/ StartEditBatch \/ StartEditHtmlBatch \/ BatchStep

SpecPolicy == InitRe /\ [][NextPolicy]_vars

(***************************************************************************)
(* C14: with errors='ignore' or 'skip', and always in edit_batch and       *)
(* edit_html_batch, a failure while one item is processed does not stop    *)
(* the batch: no error leaves it, every later item is still processed, and *)
(* a status map gets False for the failed item.  The failed item advances  *)
(* file_no under 'ignore' and not under 'skip'; under 'skip' the failed    *)
(* item is not written and none of its matches is yielded.                 *)
(***************************************************************************)
Swallowing == (InRe /\ gen.errors \in {"ignore", "skip"}) \/ InBatch

\* how many of the ids in seq have no file
Missing(seq) == Len(SelectSeq(seq, LAMBDA id : ~Exists(store, id)))

NextAll == NextBatch \/ NextRe

SpecAll == InitRe /\ [][NextAll]_vars

(***************************************************************************)
(* C15: in edit_batch, edit_iter, re_iter and re_sub called with a list of *)
(* ids, a listed id without a file is surfaced to the caller at once as an *)
(* error, under every error policy: the operation ends there with the      *)
(* store's error.                                                          *)
(***************************************************************************)
Listed == gen.op \in {"edit_batch", "edit_iter", "re_iter", "re_sub"}

\* the n-th id the operation has read is the last one, and the read's error
\* left the operation
Surfaced(n) ==
    /\ n = Len(gen.reads)
    /\ gen.st = "dead"
    /\ last.exc = "NoSuchItem"

Surfacing == gen.op = "edit_iter" \/ (InRe /\ gen.errors = "raise")

PassedOver(n) ==
    /\ gen.st # "dead"
    /\ gen.op = "edit_batch" => gen.status[gen.reads[n]] = "False"
    /\ gen.st = "done" =>
           gen.reads = IF InBatch THEN SelectSeq(gen.args, Accepted) ELSE gen.args

Produced(call) ==
    IF call.sig.e = "WriteBack" THEN call.sig.v ELSE RecordContent(call.sess)

Discards(call) ==
    \/ RaisedDiscard(call)
    \/ call.kind = "edit_batch" /\ call.sig.e = "none" /\ call.sess.rec.data = None

SkipWithInfos ==
    gen.op = "re_sub" /\ gen.repl = "callable" /\ gen.more /\ gen.errors = "skip"

\* the match infos the callable received in the last turn of the loop
TurnInfos == SubSeq(gen.yields, Len(last.sess.yields) + 1, Len(gen.yields))

SkipRollsBackGlobalNo ==
    (SkipWithInfos /\ last.op = "sub") =>
        /\ SubFailed => (gen.j = last.sess.j /\ NotWritten(last))
        /\ TurnInfos # <<>> => TurnInfos[1].j = last.sess.j

(***************************************************************************)
(* C18: over a run of re_iter or element_iter with more_info, the          *)
(* global_no of the records is 1, 2, ... in the order they are yielded:    *)
(* strictly increasing and not reset between items.  Every item gives as   *)
(* many records as it has matches or elements, so the last global_no of a  *)
(* finished run is the sum of the counts of its items.                     *)
(***************************************************************************)
Numbering == gen.op \in {"re_iter", "element_iter"} /\ gen.more

RECURSIVE Sum(_)
Sum(seq) == IF seq = <<>> THEN 0 ELSE Head(seq) + Sum(Tail(seq))

\* the ids read so far that have a file
ReadFiles == SelectSeq(gen.reads, LAMBDA id : Exists(store, id))

CountsAreOfTheItems ==
    /\ gen.op = "re_iter" =>
           gen.counts = [n \in 1..Len(ReadFiles) |->
                             count(gen.path, store[ReadFiles[n]].body)]
    /\ (gen.op = "element_iter" /\ gen.st = "els") =>
           gen.counts[Len(gen.counts)] =
               select(gen.path, html_fromstring(session.content))

GlobalNoCountsUp ==
    Numbering =>
        /\ \A n \in 1..Len(gen.yields) : gen.yields[n].j = n
        /\ CountsAreOfTheItems
        /\ gen.st = "done" => Len(gen.yields) = Sum(gen.counts)

\* element_iter has gone through A, with two elements, and B, with one: the
\* element of B was yielded with global_no 3
GlobalNoCountsUpSeen ==
    /\ gen.op = "element_iter"
    /\ gen.more
    /\ gen.st = "done"
    /\ gen.counts = <<2, 1>>
    /\ Len(gen.yields) = 3
    /\ gen.yields[3] = Yielded("B", 1, 3, 2)

(***************************************************************************)
(* C19: in the records that re_iter and element_iter yield under more_info *)
(* and in those re_sub hands to its callable under more_info, the first    *)
(* match or element of every item has local_no 1, and local_no and         *)
(* global_no are each one higher for every further one of that item.       *)
(***************************************************************************)
WithInfos ==
    \/ Numbering
    \/ gen.op = "re_sub" /\ gen.repl = "callable" /\ gen.more

\* the n-th record is the first one of its item
FirstOfItem(n) == n = 1 \/ gen.yields[n - 1].id # gen.yields[n].id

LocalAndGlobalNoStep ==
    WithInfos =>
        \A n \in 1..Len(gen.yields) :
            IF FirstOfItem(n)
            THEN gen.yields[n].i = 1
            ELSE /\ gen.yields[n].i = gen.yields[n - 1].i + 1
                 /\ gen.yields[n].j = gen.yields[n - 1].j + 1

(***************************************************************************)
(* C20: file_no advances once for every processed item, whatever the       *)
(* number of its matches, zero included: the records of an item carry 1    *)
(* plus the number of items processed before it.  The processed items are  *)
(* those the loop took and did not skip: a candidate the predicate rejects *)
(* and, under errors='skip', an item that failed are not among them.       *)
(***************************************************************************)
\* the place of an id among the ids read so far
Pos(id) == CHOOSE n \in 1..Len(gen.reads) : gen.reads[n] = id

\* the ids read before the n-th that have no file
MissingBefore(n) == Missing(SubSeq(gen.reads, 1, n - 1))

FileNoCountsItems ==
    /\ (gen.op = "element_iter" \/ (gen.op = "re_iter" /\ gen.more)) =>
           \A n \in 1..Len(gen.yields) :
               LET p == Pos(gen.yields[n].id)
               IN  gen.yields[n].k =
                       p - (IF gen.errors = "skip" THEN MissingBefore(p) ELSE 0)
    /\ (gen.op = "re_sub" /\ gen.repl = "callable") =>
           /\ gen.reads = <<>> => gen.k = 1
           /\ last.op = "sub" =>
                  /\ \A n \in 1..Len(TurnInfos) : TurnInfos[n].k = last.sess.k
                  /\ gen.st # "dead" =>
                         gen.k = last.sess.k
                                 + (IF SubFailed /\ gen.errors = "skip" THEN 0 ELSE 1)
           /\ gen.errors # "skip" =>
                  \A n \in 1..Len(gen.yields) :
                      gen.yields[n].k = Pos(gen.yields[n].id)

\* re_iter over A, without a match, and B: the match of B carries file_no 2
FileNoCountsItemsSeen ==
    /\ gen.op = "re_iter"
    /\ gen.more
    /\ gen.counts = <<0, 1>>
    /\ gen.yields = <<Yielded("B", 1, 1, 2)>>

(***************************************************************************)
(* C21: in element_iter an item whose tree has no element for the path     *)
(* gives no record and is not written back; when no item has an element,   *)
(* nothing is yielded and the store gets no write.                         *)
(***************************************************************************)
\* a write of the last step went to the file id
WroteTo(id) == \E n \in 1..Len(last.writes) : last.writes[n][1] = id

ZeroElementsNoOutputNoWrite ==
    gen.op = "element_iter" =>
        /\ \A n \in 1..Len(gen.counts) :
               gen.counts[n] = 0 =>
                   /\ \A y \in 1..Len(gen.yields) : gen.yields[y].id # gen.reads[n]
                   /\ ~WroteTo(gen.reads[n])
                   /\ store[gen.reads[n]] = last.pre[gen.reads[n]]
        /\ Sum(gen.counts) = 0 => (gen.yields = <<>> /\ NotWritten(last))

\* element_iter has gone through A and B without finding an element; A, which
\* html_tostring would not give back as it was read, is as it was
ZeroElementsSeen ==
    /\ gen.op = "element_iter"
    /\ gen.st = "done"
    /\ gen.counts = <<0, 0>>
    /\ store["A"] = Doc(FALSE, "none", <<"bar", "bar">>)
    /\ html_tostring(html_fromstring(store["A"]), "xhtml") # store["A"]

(***************************************************************************)
(* A with-block over ctx_edit on an id while an EditStack holds an entry   *)
(* for it: the id is opened a second time before the first session on it  *)
(* is closed.                                                              *)
(***************************************************************************)
\* with ctx_edit(id, wrap_me=True) as data: __enter__, on an id the stack has
\* an entry for
NestedEnter ==
    /\ session = NoSession
    /\ \E id \in Ids :
         /\ Cached(stack, id)
         /\ LET r == ctx_open(store, id, "wrap")
            IN  /\ session' = r.sess
                /\ store' = r.res.store
                /\ last' = Call("enter", "wrap", id, store, Return(None), r.sess, r.res)
    /\ UNCHANGED <<gen, stack>>

\* the body of the with-block assigns data['data']
NestedSetData ==
    /\ session # NoSession
    /\ session.rec.data = session.content
    /\ session' = [session EXCEPT !.rec.data = [@ EXCEPT !.body = <<"nested">>]]
    /\ UNCHANGED <<store, last, gen, stack>>

\* the with-block is left without an exception: __exit__
NestedExit ==
    /\ session # NoSession
    /\ LET r == cm_exit(store, session, Return(None))
       IN  /\ store' = r.store
           /\ session' = NoSession
           /\ last' = Call("exit", session.kind, session.id, store, Return(None),
                           session, r)
    /\ UNCHANGED <<gen, stack>>

NextNested ==
    \/ StackGet \/ StackMutate \/ StackClose
    \/ NestedEnter \/ NestedSetData \/ NestedExit

SpecNested == InitStack /\ [][NextNested]_vars

(***************************************************************************)
(* C22: a second open of an id whose session is not yet closed returns the *)
(* session that is open, or fails: two live sessions on one id, each with  *)
(* its own copy of the content read, never coexist, and so the write of a  *)
(* closing session replaces no content but the one that session read.      *)
(***************************************************************************)
\* the with-block's session and an entry of the stack are live on the same id
TwoLiveSessions == session # NoSession /\ Cached(stack, session.id)

\* the content the session behind a write of the last call had read
ReadBy(call, n) ==
    IF call.kind = "EditStack"
    THEN Opened(call.sess, call.writes[n][1]).sess.content
    ELSE call.sess.content

\* the write of a closing session replaces the content that session read
CloseReplacesWhatWasRead ==
    (last.op \in CloseOps /\ last.kind \in Kinds \cup {"EditStack"}) =>
        \A n \in 1..Len(last.writes) :
            last.pre[last.writes[n][1]] = ReadBy(last, n)

OneLiveSessionPerId == ~TwoLiveSessions /\ CloseReplacesWhatWasRead

(***************************************************************************)
(* The single-item operations, and the context manager of a with-block     *)
(* that has been left asked to exit once more (as ExitStack or a caller    *)
(* holding the manager can do).                                            *)
(***************************************************************************)
\* the session of the last with-block, its generator ended
EndedSession == [last.sess EXCEPT !.pos = "end"]

\* __exit__ of a context manager whose with-block has been left
CtxExitAgain ==
    /\ session = NoSession
    /\ gen.op = "none"
    /\ last.op \in {"exit", "again"}
    /\ last.kind \in Kinds
    /\ \E sig \in {Return(None), Raise("Error", None),
                   Raise("WriteBack", [last.sess.content EXCEPT !.body = <<"baz">>])} :
         LET r == cm_exit(store, EndedSession, sig)
         IN  /\ store' = r.store
             /\ last' = Call("again", last.kind, last.id, store, sig, EndedSession, r)
    /\ UNCHANGED <<session, gen, stack>>

NextOnce == NextEdit \/ CtxExitAgain

SpecOnce == InitEdit /\ [][NextOnce]_vars

(***************************************************************************)
(* C23: a session of ctx_edit, ctx_edit_sgml or ctx_edit_html ends exactly *)
(* once, however the body of the with-block ends (normally, with           *)
(* WriteBack or DoNotWriteBack, or with another error): the generator is   *)
(* finished by the exit, it has written at most once, and nothing is       *)
(* written through it after it has ended.                                  *)
(***************************************************************************)
\* what __exit__ sent into the generator of the last call
ExitInput(call) ==
    IF call.sig.t = "raise" THEN GenThrow(call.sig.e, call.sig.v) ELSE GenNext

SessionEndsOnce ==
    /\ (last.op = "exit" /\ last.kind \in Kinds) =>
           /\ ctx_resume(last.pre, last.sess, ExitInput(last)).done
           /\ session = NoSession
           /\ Len(last.writes) <= 1
           /\ \A n \in 1..Len(last.writes) : last.writes[n][1] = last.id
    /\ last.op = "again" => NotWritten(last)

\* a with-block that ended with WriteBack has written, and its context manager
\* was asked to exit again
SessionEndsOnceSeen ==
    /\ last.op = "again"
    /\ last.sig.e = "none"
    /\ last.sess.content # store[last.id]

(***************************************************************************)
(* C24: in ctx_edit_sgml and ctx_edit_html, when the tree, changed or not, *)
(* cannot be serialized as the session closes, the error reaches the       *)
(* caller and the item is not written; a failure to parse at the open      *)
(* reaches the caller before anything is yielded or written.               *)
(***************************************************************************)
\* the last call closed a tree session whose tree the serializer rejects
SerializeFails ==
    /\ last.op = "exit"
    /\ last.kind \in {"sgml", "html"}
    /\ \/ last.sig.t = "return" /\ ~CanSerialize(last.sess.tree)
       \/ /\ last.sig.e = "WriteBack"
          /\ IsTree(last.sig.v)
          /\ ~CanSerialize(last.sig.v)

\* the last call opened a tree session on a file the parser rejects
ParseFails ==
    /\ last.op = "enter"
    /\ last.kind = "sgml"
    /\ Exists(last.pre, last.id)
    /\ ~CanParseXml(last.pre[last.id])

TreeErrorsPropagate ==
    /\ SerializeFails => (last.exc = "SerializeError" /\ NotWritten(last))
    /\ ParseFails =>
           /\ last.exc = "ParseError"
           /\ session = NoSession
           /\ NotWritten(last)

\* the body has put a node the serializer rejects into the tree of a file that
\* could be parsed and serialized, and the with-block has ended normally
TreeErrorSeen ==
    /\ SerializeFails
    /\ last.sig.t = "return"
    /\ CanSerialize(xml_fromstring(last.sess.content))
    /\ last.exc = "SerializeError"

(***************************************************************************)
(* C25: WriteBack(data) raised by the transform of edit, or in the body of *)
(* a with-block over ctx_edit or ctx_edit_sgml, does not reach the caller; *)
(* data (a tree is serialized first) is the new content: it is written if  *)
(* and only if it differs from the content read at the open, and edit      *)
(* returns True if and only if it wrote.                                   *)
(***************************************************************************)
\* the last call ended with WriteBack(data), data a content or a tree the
\* serializer accepts
WriteBackRaised ==
    /\ last.op \in {"edit", "exit"}
    /\ last.kind \in Kinds \cup {"none"}
    /\ last.sig.e = "WriteBack"
    /\ IsTree(last.sig.v) => CanSerialize(last.sig.v)

\* the content that data stands for
WriteBackData(call) ==
    IF IsTree(call.sig.v) THEN tostring(call.sess, call.sig.v) ELSE call.sig.v

\* the content the call read
ContentRead(call) == IF call.op = "edit" THEN call.pre[call.id] ELSE call.sess.content

WriteBackIsTheResult ==
    WriteBackRaised =>
        /\ last.exc = "none"
        /\ IF WriteBackData(last) # ContentRead(last)
           THEN WrittenAs(last, WriteBackData(last)) /\ last.ret = TRUE
           ELSE NotWritten(last) /\ last.ret = FALSE

\* the transform of edit has raised WriteBack with content that differs from the
\* file's: edit wrote it and returned True
WriteBackSeen ==
    /\ WriteBackRaised
    /\ last.op = "edit"
    /\ last.sig.v # last.pre[last.id]
    /\ store[last.id] = last.sig.v
    /\ last.ret = TRUE

(***************************************************************************)
(* C26: a lookup on an EditStack by id, href, basename or bookpath that    *)
(* fails - the key names no file, or the file cannot be opened - raises    *)
(* KeyError, never the error of the store, and leaves the stack as it was: *)
(* no entry is cached, no session is opened, nothing is read or written.   *)
(***************************************************************************)
LookupFailed ==
    /\ last.op = "get"
    /\ ~Exists(last.pre, last.id) \/ last.exc # "none"

FailedLookupIsKeyError ==
    LookupFailed =>
        /\ last.exc = "KeyError"
        /\ stack.data = last.sess.data
        /\ stack.edit_stack = last.sess.edit_stack
        /\ stack.reads = last.sess.reads
        /\ Len(stack.entries) = Len(last.sess.entries)
        /\ NotWritten(last)

\* a lookup by href of a file that does not exist, on a stack with an open entry
FailedLookupSeen ==
    /\ LookupFailed
    /\ last.kind = "href"
    /\ last.sess.type = "EditStack"
    /\ ~Exists(last.pre, last.id)
    /\ stack.edit_stack # <<>>

(***************************************************************************)
(* An EditStack in use whose ids are enumerated: len(stack) and            *)
(* iter(stack), over a store with and without a file C.  C, when it has a  *)
(* file, is a file that is no (X)HTML text.                                *)
(***************************************************************************)
InitEnum ==
    /\ \E c \in {Doc(FALSE, "none", <<"css">>), Absent} :
         store = [id \in Ids |-> IF id = "A" THEN Doc(TRUE, XHTML_DOCTYPE, <<"foo">>)
                                 ELSE IF id = "B" THEN Doc(FALSE, "none", <<"bar">>)
                                 ELSE c]
    /\ session = NoSession
    /\ last = NoCall(store)
    /\ gen = NoGen
    /\ stack \in {[NoStack EXCEPT !.type = t] : t \in StackTypes}

\* the ids cached by the stack, in the order of the manifest
CachedIds(stk) == SelectSeq(IdOrder, LAMBDA id : Cached(stk, id))

\* a mutant of EditStack_iter: the keys of the cache are enumerated
EditStack_iter_cache(st, stk) == CachedIds(stk)

\* EditStack.__iter__ / TextEditStack.__iter__: the ids of bc.manifest_iter(),
\* of bc.text_iter()
EditStack_iter(st, stk) ==
    IF stk.type = "EditStack" THEN manifest_iter(st) ELSE text_iter(st)

\* EditStack.__len__: len(bc._w.id_to_mime), the number of manifest ids;
\* TextEditStack.__len__: sum(1 for _ in bc.text_iter())
EditStack_len(st, stk) ==
    IF stk.type = "EditStack"
    THEN Cardinality({id \in Ids : Exists(st, id)})
    ELSE Len(text_iter(st))

\* len(stack)
StackLen ==
    /\ last' = Call("len", "EditStack", "none", store, Return(None), stack,
                    Returned(store, EditStack_len(store, stack)))
    /\ UNCHANGED <<store, session, gen, stack>>

\* list(stack): the ids the iterator gives
StackIter ==
    /\ last' = Call("iter", "EditStack", "none", store, Return(None), stack,
                    Returned(store, EditStack_iter(store, stack)))
    /\ UNCHANGED <<store, session, gen, stack>>

NextEnum == NextStack \/ StackLen \/ StackIter

SpecEnum == InitEnum /\ [][NextEnum]_vars

(***************************************************************************)
(* C27: iterating an EditStack and taking its length give the items the    *)
(* store holds at the call - all of them for an EditStack, the text items  *)
(* for a TextEditStack - whatever is cached; enumerating opens no session  *)
(* and changes neither the cache nor the store.                            *)
(***************************************************************************)
\* the ids the store holds that the stack of the call is about
Population(call) ==
    {id \in Ids : /\ Exists(call.pre, id)
                  /\ call.sess.type = "TextEditStack" => HasXhtml(id_to_mime(id))}

EnumerationIsLive ==
    last.op \in {"len", "iter"} =>
        /\ last.op = "len" => last.ret = Cardinality(Population(last))
        /\ last.op = "iter" =>
               /\ {last.ret[n] : n \in 1..Len(last.ret)} = Population(last)
               /\ Len(last.ret) = Cardinality(Population(last))
        /\ stack.data = last.sess.data
        /\ stack.edit_stack = last.sess.edit_stack
        /\ stack.reads = last.sess.reads
        /\ Len(stack.entries) = Len(last.sess.entries)
        /\ NotWritten(last)

\* an EditStack that has cached A alone is iterated over a store that holds A, B
\* and the file C that is no text
EnumerationSeen ==
    /\ last.op = "iter"
    /\ last.sess.type = "EditStack"
    /\ CachedIds(last.sess) = <<"A">>
    /\ last.ret = <<"A", "B", "C">>

(***************************************************************************)
(* The example of the specification: the items A = "foo bar foo" and       *)
(* B = "bar bar", on which re_sub and re_iter are called.                  *)
(***************************************************************************)
InitExample ==
    /\ store = [id \in Ids |-> IF id = "A" THEN Doc(TRUE, XHTML_DOCTYPE, <<"foo", "bar", "foo">>)
                               ELSE IF id = "B" THEN Doc(TRUE, XHTML_DOCTYPE, <<"bar", "bar">>)
                               ELSE Absent]
    /\ session = NoSession
    /\ last = NoCall(store)
    /\ gen = NoGen
    /\ stack = NoStack

SpecExample == InitExample /\ [][NextRe]_vars

\* re_sub("foo", "baz", ["A", "B"]) on the items of the example
ExampleCall ==
    /\ gen.op = "re_sub"
    /\ gen.path = "foo"
    /\ gen.repl = "baz"
    /\ gen.args = <<"A", "B">>

\* what the example leaves of A and B, A written once and B never
ExampleEdits ==
    /\ (last.op = "sub" /\ last.id = "A") =>
           /\ last.pre["A"].body = <<"foo", "bar", "foo">>
           /\ last.writes = <<<<"A", [last.pre["A"] EXCEPT !.body = <<"baz", "bar", "baz">>]>>>>
    /\ (last.op = "sub" /\ last.id = "B") =>
           /\ NotWritten(last)
           /\ store["B"].body = <<"bar", "bar">>
    /\ gen.st = "done" =>
           /\ gen.reads = <<"A", "B">>
           /\ store["A"].body = <<"baz", "bar", "baz">>
           /\ store["B"].body = <<"bar", "bar">>
           /\ store["C"] = Absent

\* C28 as stated: ... and re_sub reports the status map {A: true, B: true}
ExampleReportsStatusMap ==
    ExampleCall =>
        /\ ExampleEdits
        /\ gen.st = "done" => last.ret = [id \in {"A", "B"} |-> TRUE]

(***************************************************************************)
(* C28: for the items A = "foo bar foo" and B = "bar bar", the pattern     *)
(* "foo" and the replacement "baz", re_sub leaves A = "baz bar baz" with   *)
(* exactly one write to A, leaves B unchanged with no write to B, and      *)
(* returns None: it reports no status map.                                 *)
(***************************************************************************)
ExampleReturnsNone ==
    ExampleCall =>
        /\ ExampleEdits
        /\ gen.st = "done" => last.ret = None /\ gen.status = NoStatus

\* the call of the example has returned
ExampleSeen ==
    /\ ExampleCall
    /\ gen.st = "done"
    /\ last.op = "return"
    /\ store["A"].body = <<"baz", "bar", "baz">>

(***************************************************************************)
(* _make_standard_predicate(predicate): the adapter of a caller's filter.  *)
(* A predicate is known by the kind of callable it is, the positional      *)
(* parameters it declares to its caller (the self a bound method or a      *)
(* callable object is bound to is none of them), whether it takes *args,   *)
(* and what it returns.                                                    *)
(***************************************************************************)
MaxParams == 4

\* a function, a bound method, an instance of a class with __call__, and a
\* builtin that inspect cannot introspect
Forms == {"function", "method", "object", "builtin"}

Predicates ==
    [form : Forms, params : 0..MaxParams, varargs : BOOLEAN,
     result : {"True", "False", "other"}]

\* _posargcount(func): __code__.co_argcount and CO_VARARGS where func has a
\* __code__ (a bound method gives the one of its function, self counted), else
\* getfullargspec(func), which counts the bound self as well, else (0, False)
posargcount(func) ==
    IF func.form = "function"
    THEN [argcount |-> func.params, has_varargs |-> func.varargs]
    ELSE IF func.form = "method"
    THEN [argcount |-> func.params + 1, has_varargs |-> func.varargs]
    ELSE IF func.form = "builtin"
    THEN [argcount |-> 0, has_varargs |-> FALSE]
    ELSE [argcount |-> func.params + 1, has_varargs |-> func.varargs]

\* a mutant of make_standard_predicate: two arguments are the least passed
make_standard_predicate_two(given) ==
    IF given = None THEN [predicate |-> None, passes |-> 0]
    ELSE LET r == posargcount(given)
         IN  [predicate |-> given,
              passes |-> IF r.has_varargs \/ r.argcount >= 3 THEN 3 ELSE 2]

\* _make_standard_predicate(predicate): the closure pred, which keeps the
\* predicate and how many of its three arguments it passes on
make_standard_predicate(given) ==
    IF given = None THEN [predicate |-> None, passes |-> 0]
    ELSE LET r == posargcount(given)
         IN  [predicate |-> given,
              passes |-> IF r.has_varargs \/ r.argcount >= 3 THEN 3
                         ELSE IF r.argcount = 2 THEN 2
                         ELSE IF r.argcount = 1 THEN 1
                         ELSE 0]

\* predicate(*args): a TypeError when the arguments do not fit the parameters
call_predicate(st, p, args) ==
    IF Len(args) < p.params \/ (Len(args) > p.params /\ ~p.varargs)
    THEN Result(st, <<>>, [passed |-> args, value |-> "none"], "TypeError")
    ELSE Returned(st, [passed |-> args, value |-> p.result])

\* pred(manifest_id, href, mimetype)
pred(st, adapter, manifest_id, href, mimetype) ==
    IF adapter.predicate = None
    THEN Returned(st, [passed |-> <<>>, value |-> "True"])
    ELSE call_predicate(st, adapter.predicate,
                        SubSeq(<<manifest_id, href, mimetype>>, 1, adapter.passes))

\* pred = _make_standard_predicate(predicate)
MakePredicate ==
    /\ last.op = "init"
    /\ \E p \in Predicates \cup {None} :
         last' = Call("make", "predicate", "none", store, Return(p), NoSession,
                      Returned(store, make_standard_predicate(p)))
    /\ UNCHANGED <<store, session, gen, stack>>

\* the adapter that was built
Adapter == IF last.op = "make" THEN last.ret ELSE last.sig.v

\* pred(id, href, mimetype) for a file of the manifest
CallPredicate ==
    /\ last.op \in {"make", "call"}
    /\ last.kind = "predicate"
    /\ \E id \in Ids :
         last' = Call("call", "predicate", id, store,
                      [t |-> "pred", e |-> "none", v |-> Adapter], NoSession,
                      pred(store, Adapter, id, id_to_href(id), id_to_mime(id)))
    /\ UNCHANGED <<store, session, gen, stack>>

NextPredicate == MakePredicate \/ CallPredicate

SpecPredicate == InitExample /\ [][NextPredicate]_vars

(***************************************************************************)
(* C29: the adapter accepts every item when no predicate was given; it     *)
(* calls a predicate that declares n positional parameters with the first  *)
(* n of (id, href, mimetype) for n in 0..2 and with all three for n >= 3   *)
(* or *args, and a predicate that cannot be introspected with none; the    *)
(* arity is that found when the adapter was built, and the adapter returns *)
(* what the predicate returned.                                            *)
(***************************************************************************)
\* the three arguments of the last call of the adapter
Triple == <<last.id, id_to_href(last.id), id_to_mime(last.id)>>

AdapterPassesDeclaredArity ==
    (last.op = "call" /\ last.kind = "predicate") =>
        LET p == last.sig.v.predicate
        IN  IF p = None THEN last.exc = "none" /\ last.ret.value = "True"
            ELSE /\ last.sig.v = make_standard_predicate(p)
                 /\ last.ret.passed =
                        IF p.form = "builtin" THEN <<>>
                        ELSE IF p.varargs \/ p.params >= 3 THEN Triple
                        ELSE SubSeq(Triple, 1, p.params)
                 /\ last.exc = "none" => last.ret.value = p.result

(***************************************************************************)
(* C30: edit_iter without wrap_me and yield_cm, driven by a for loop whose *)
(* body may call send: the content of each item the predicate accepts is   *)
(* delivered once; content sent before the loop advances is written when   *)
(* it advances iff it differs from the content read, and the send neither  *)
(* takes the next item nor skips one; an item for which nothing was sent   *)
(* is not written.                                                         *)
(***************************************************************************)
PlainIter == gen.op = "edit_iter" /\ ~gen.wrap /\ ~gen.cm

\* the ids of the items delivered so far
Delivered == [n \in 1..Len(gen.yields) |-> gen.yields[n].id]

\* the last step was edit_worker.send(content_new) in the body of the loop
SentInBody == last.op \in {"resume", "leave"} /\ last.sig.t = "send"

\* the last step was the for loop advancing from an item
Advanced ==
    last.op \in {"resume", "leave"} /\ last.sig.t = "next" /\ last.sess # NoSession

ForLoopWithSend ==
    PlainIter =>
        /\ gen.st \in {"item", "done"} => Delivered = SelectSeq(Consumed, Accepted)
        /\ gen.st = "item" => session.id = Delivered[Len(Delivered)]
        /\ SentInBody =>
               /\ last.op = "resume"
               /\ last.exc = "none"
               /\ gen.st = "item"
               /\ session.id = last.sess.id
               /\ session.content = last.sess.content
               /\ session.new = IF last.sess.pos = "y1" THEN last.sig.v ELSE last.sess.new
               /\ NotWritten(last)
        /\ Advanced =>
               IF last.sess.pos = "y2" /\ last.sess.new # last.sess.content
               THEN WrittenAs(last, last.sess.new)
               ELSE NotWritten(last)

\* the loop advanced from A, for which new content had been sent, to B
ForLoopWithSendSeen ==
    /\ PlainIter
    /\ Advanced
    /\ last.sess.id = "A"
    /\ last.sess.pos = "y2"
    /\ WrittenAs(last, last.sess.new)
    /\ session.id = "B"
    /\ Delivered = <<"A", "B">>

\* the loop advanced from an item for which the content read had been sent back
ForLoopSentSameSeen ==
    /\ PlainIter
    /\ Advanced
    /\ last.sess.pos = "y2"
    /\ last.sess.new = last.sess.content

(***************************************************************************)
(* C31: in edit_html_iter without wrap_me and yield_cm,                    *)
(* edit_worker.throw(DoNotWriteBack) and edit_worker.send(0), called while *)
(* the generator stands at an item, keep the tree of that item from being  *)
(* written back.                                                           *)
(***************************************************************************)
PlainHtmlIter == gen.op = "edit_html_iter" /\ ~gen.wrap /\ ~gen.cm

\* the last step resumed edit_html_iter while it stood at an item
AtItem(t) ==
    /\ last.kind = "edit_html_iter"
    /\ last.op \in {"resume", "leave"}
    /\ last.sig.t = t
    /\ last.sess # NoSession

\* what the for loop's next() writes when it advances from the item the generator
\* stands at
AdvanceWrites == edit_html_iter(store, gen, session, GenNext).res.writes

ThrowOrSendZeroDiscards ==
    PlainHtmlIter =>
        /\ (AtItem("throw") /\ last.sig.e = "DoNotWriteBack") => NotWritten(last)
        /\ AtItem("send") =>
               /\ NotWritten(last)
               /\ \A n \in 1..Len(AdvanceWrites) : AdvanceWrites[n][1] # last.sess.id

(***************************************************************************)
(* Single-item operations on one file that is (X)HTML: A, whose media type *)
(* contains 'xhtml', or C, whose media type does not.  The file has a      *)
(* doctype or none, and an XML declaration that names UTF-8 or another     *)
(* encoding, or none.                                                      *)
(***************************************************************************)
HtmlContents ==
    {Doc(FALSE, "none", <<"foo">>),
     Doc(TRUE, XHTML_DOCTYPE, <<"foo">>),
     [Doc(TRUE, "none", <<"foo">>) EXCEPT !.enc = LATIN1],
     [Doc(TRUE, HTML_DOCTYPE, <<"foo">>) EXCEPT !.enc = LATIN1]}

InitHtml ==
    /\ \E id \in SingleIds :
         \E c \in HtmlContents :
           store = [x \in Ids |-> IF x = id THEN c ELSE Absent]
    /\ session = NoSession
    /\ last = NoCall(store)
    /\ gen = NoGen
    /\ stack = NoStack

SpecHtml == InitHtml /\ [][NextEdit]_vars

(***************************************************************************)
(* C32: when ctx_edit_html serializes a tree whose parsed document has no  *)
(* doctype, the doctype it emits is the XHTML 1.1 one if the media type of *)
(* the item contains 'xhtml' and '<!DOCTYPE html>' otherwise; the doctype  *)
(* and the encoding of the parsed document, where it has them, are         *)
(* reproduced as they are.                                                 *)
(***************************************************************************)
\* the with-block over ctx_edit_html was left without an exception and the tree was
\* serialized
HtmlSerialized ==
    /\ last.op = "exit"
    /\ last.kind = "html"
    /\ last.sig = Return(None)
    /\ last.exc = "none"

\* the text the serializer gave: it was written, or it is the text that was read
Serialized == store[last.id]

HtmlDoctypeByMimetype ==
    HtmlSerialized =>
        LET parsed == html_fromstring(last.sess.content)
        IN  /\ Serialized.doctype =
                   IF parsed.doctype # "none" THEN parsed.doctype
                   ELSE IF HasXhtml(id_to_mime(last.id)) THEN XHTML_DOCTYPE
                   ELSE HTML_DOCTYPE
            /\ parsed.enc # "none" => Serialized.enc = parsed.enc
            /\ last.writes # <<>> => last.writes[1] = <<last.id, Serialized>>

\* C, whose media type is text/html, had no doctype and was written with
\* '<!DOCTYPE html>' and the encoding it declared
HtmlDoctypeSeen ==
    /\ HtmlSerialized
    /\ last.id = "C"
    /\ last.sess.content.doctype = "none"
    /\ last.sess.content.enc = LATIN1
    /\ last.writes # <<>>
    /\ Serialized.doctype = HTML_DOCTYPE
    /\ Serialized.enc = LATIN1

(***************************************************************************)
(* C33: a well-formed document opened with ctx_edit_sgml or ctx_edit_html  *)
(* and closed with its tree untouched serializes to the text that was      *)
(* read, declaration, encoding and doctype included, so that the item is   *)
(* not written.                                                            *)
(***************************************************************************)
WellFormed(content) == CanParseXml(content) /\ content.body # <<>>

\* the with-block over ctx_edit_sgml / ctx_edit_html was left without an exception,
\* the tree being the one the parser gave
ClosedUntouched ==
    /\ last.op = "exit"
    /\ last.kind \in {"sgml", "html"}
    /\ last.sig = Return(None)
    /\ WellFormed(last.sess.content)
    /\ last.sess.tree = (IF last.kind = "sgml" THEN xml_fromstring(last.sess.content)
                         ELSE html_fromstring(last.sess.content))

RoundTripUntouched ==
    ClosedUntouched =>
        /\ last.exc = "none"
        /\ tostring(last.sess, last.sess.tree) = last.sess.content
        /\ NotWritten(last)

(***************************************************************************)
(* What the errors parameter of re_iter and re_sub does with an error,     *)
(* when `stop` is the value that raises the error and ends the call and    *)
(* `hold` the value that passes over the error without increasing the      *)
(* number of processed files; the third value passes over the error and    *)
(* increases the number.                                                   *)
(***************************************************************************)
ErrorsPolicy(stop, hold) ==
    /\ (gen.op = "re_sub" /\ SubFailed) =>
           IF gen.errors = stop
           THEN last.exc = last.sig.e /\ gen.st = "dead"
           ELSE /\ last.exc = "none"
                /\ gen.st = "sub"
                /\ gen.repl = "callable" =>
                       gen.k = last.sess.k + (IF gen.errors = hold THEN 0 ELSE 1)
    /\ gen.op = "re_iter" =>
           /\ gen.st = "dead" <=> (gen.errors = stop /\ Missing(gen.reads) > 0)
           /\ gen.st = "dead" => last.exc = "NoSuchItem"
           /\ (gen.more /\ gen.st # "dead") =>
                  gen.k = 1 + Len(Consumed)
                          - (IF gen.st = "match" THEN 1 ELSE 0)
                          - (IF gen.errors = hold THEN Missing(Consumed) ELSE 0)

ErrorsSkipSeen ==
    /\ gen.op = "re_iter"
    /\ gen.more
    /\ gen.errors = "skip"
    /\ gen.reads = <<"A", "C", "B">>
    /\ gen.st = "match"
    /\ gen.k = 2

(***************************************************************************)
(* Every batch operation and re_sub from the files of InitBatch, also      *)
(* called with a list that names A twice: what the first turn wrote is     *)
(* what the second turn reads.                                             *)
(***************************************************************************)
Twice == <<"A", "A">>

\* edit_iter(('A', 'A')), edit_batch(operate, ('A', 'A')) or
\* re_sub('foo', repl, ('A', 'A')) is called
StartTwice ==
    /\ Idle
    /\ \/ \E wrap \in BOOLEAN :
            gen' = Started("edit_iter", wrap, FALSE, FALSE, "none", "none", Twice)
       \/ gen' = Started("edit_batch", TRUE, FALSE, FALSE, "none", "none", Twice)
       \/ \E repl \in Repls, errors \in Errors :
            LET c == IF repl = "callable" THEN 1 ELSE 0
            IN  gen' = [NoGen EXCEPT !.op = "re_sub", !.path = "foo", !.repl = repl,
                                     !.errors = errors, !.args = Twice, !.todo = Twice,
                                     !.st = "sub", !.i = c, !.j = c, !.k = c]
    /\ UNCHANGED <<store, session, last, stack>>

NextSeq == NextBatch \/ StartReSub \/ ReSubStep \/ StartTwice

SpecSeq == InitBatch /\ [][NextSeq]_vars

(***************************************************************************)
(* C35: within one call of edit_iter (not yield_cm), edit_batch,           *)
(* edit_html_iter, edit_html_batch, element_iter or re_sub the items are   *)
(* processed one after another: at most one item has an open session, and  *)
(* the session of an item is closed, its write committed or dropped,       *)
(* before the next item is read from the store.                            *)
(***************************************************************************)
\* the store after the writes, in their order
RECURSIVE Applied(_, _)
Applied(st, writes) ==
    IF writes = <<>> THEN st
    ELSE Applied(writefile(st, Head(writes)[1], Head(writes)[2]), Tail(writes))

\* one of the generators that hold the session of the item they stand at
Iterating ==
    gen.op \in {"edit_iter", "edit_html_iter", "element_iter"} /\ ~gen.cm

\* the last step was a turn of the call in progress
Turn == last.op \in {"resume", "leave", "item", "sub"} /\ last.kind = gen.op

AtElement == gen.op = "element_iter" /\ gen.st = "els"

\* the consumer resumes the generator that stands at the last element of an item
PastLastElement ==
    /\ AtElement
    /\ gen.els = 0
    /\ gen' # gen
    /\ last'.sig = GenNext

ElementCommit ==
    LET new == html_tostring(session.tree, session.method)
    IN  /\ IF CanSerialize(session.tree) /\ new # session.content
           THEN /\ store' = writefile(store, session.id, new)
                /\ last'.writes = <<<<session.id, new>>>>
           ELSE /\ store' = store
                /\ last'.writes = <<>>
        /\ ~CanSerialize(session.tree) => gen'.st = "dead"
        /\ session' # NoSession =>
               /\ session'.id # session.id
               /\ session'.content = store'[session'.id]

ElementStep ==
    /\ AtElement => store[session.id] = session.content
    /\ IF PastLastElement THEN ElementCommit
       ELSE gen.op = "element_iter" => store' = store

CommitsPastLastElement == [][ElementStep]_vars

\* the consumer went on from the last element of A, whose tree it had changed: A
\* was written and the generator stands at an element of B, read but not written
CommitsPastLastElementSeen ==
    /\ AtElement
    /\ last.op = "leave"
    /\ last.sig = GenNext
    /\ last.id = "A"
    /\ Len(last.writes) = 1
    /\ last.writes[1][1] = "A"
    /\ session.id = "B"
    /\ store["B"] = session.content

(***************************************************************************)
(* C37: a turn of re_sub in which the callable repl raised for at least    *)
(* one match of the item writes nothing: the store after the turn is the   *)
(* store before it, under 'ignore', 'skip' and 'raise', with more_info and *)
(* without.                                                                *)
(***************************************************************************)
\* the turn of re_sub that has just ended called repl, which raised at least once
ReplRaised ==
    /\ last.op = "sub"
    /\ last.kind = "re_sub"
    /\ last.sess.repl = "callable"
    /\ \E m \in DOMAIN last.sig.v : last.sig.v[m].t = "raise"

ReplRaisedNotWritten ==
    ReplRaised => /\ store = last.pre
                  /\ last.writes = <<>>

(***************************************************************************)
(* C38: an EditStack is closed, without an exception in flight, and the    *)
(* write-back of one of its entries fails, the file having been removed    *)
(* from the book since the entry was opened.  The sessions are flushed in  *)
(* the reverse of the order they were opened in: those opened after the    *)
(* failing one have been committed, those opened before it are ended       *)
(* without being written even if their entries were changed, the cache is  *)
(* empty, no session is left open and the caller gets the write error.     *)
(***************************************************************************)
InitFail ==
    /\ store = [id \in Ids |-> Doc(TRUE, XHTML_DOCTYPE, <<"foo">>)]
    /\ session = NoSession
    /\ last = NoCall(store)
    /\ gen = NoGen
    /\ stack \in {[NoStack EXCEPT !.type = t] : t \in StackTypes}

\* the files the caller removes from the book
Removable == {"A"}

\* bc.deletefile(id): the caller removes from the book a file the stack holds
BookDelete ==
    /\ \E id \in Removable :
         /\ Exists(store, id)
         /\ stack.data[id] # 0
         /\ store' = [store EXCEPT ![id] = Absent]
    /\ UNCHANGED <<session, last, gen, stack>>

NextFail == StackGet \/ StackMutate \/ StackClose \/ BookDelete

SpecFail == InitFail /\ [][NextFail]_vars

\* the sessions the closed stack held, in the order they were opened
Flushed == last.sess.edit_stack

FlushedId(n) == Flushed[n].sess.id

FlushedRec(n) == last.sess.entries[Flushed[n].h]

\* the entry of session n asks for a write
FlushWrites(n) ==
    /\ FlushedRec(n).data # None
    /\ FlushedRec(n).write_back = "True"
    /\ FlushedRec(n).data # Flushed[n].sess.content

FlushFails(n) == FlushWrites(n) /\ ~Exists(last.pre, FlushedId(n))

CloseFailed ==
    /\ last.op \in CloseOps
    /\ last.kind = "EditStack"
    /\ last.sig = Return(None)
    /\ \E n \in DOMAIN Flushed : FlushFails(n)

\* the session whose write fails: of those that would fail, the one opened last
Failing == CHOOSE n \in DOMAIN Flushed :
               FlushFails(n) /\ \A m \in DOMAIN Flushed : m > n => ~FlushFails(m)

FlushPos(id) == CHOOSE n \in DOMAIN Flushed : FlushedId(n) = id

FailedCloseUnwinds ==
    CloseFailed =>
        LET later == {n \in DOMAIN Flushed : n > Failing}
            wrote == {n \in later : FlushWrites(n)}
        IN  /\ \A n \in later :
                  store[FlushedId(n)] = IF FlushWrites(n) THEN FlushedRec(n).data
                                        ELSE last.pre[FlushedId(n)]
            /\ \A n \in DOMAIN Flushed : n <= Failing =>
                  store[FlushedId(n)] = last.pre[FlushedId(n)]
            /\ Len(last.writes) = Cardinality(wrote)
            /\ {last.writes[i] : i \in DOMAIN last.writes} =
                   {<<FlushedId(n), FlushedRec(n).data>> : n \in wrote}
            /\ \A i, j \in DOMAIN last.writes :
                  i < j => FlushPos(last.writes[i][1]) > FlushPos(last.writes[j][1])
            /\ stack.data = NoStack.data
            /\ stack.edit_stack = <<>>
            /\ last.exc = "NoSuchItem"

\* A and B were opened in this order and both changed, A was removed from the
\* book: the close wrote B and raised the error of A
FailedCloseUnwindsSeen ==
    /\ CloseFailed
    /\ Len(Flushed) = 2
    /\ FlushedId(1) = "A"
    /\ FlushedId(2) = "B"
    /\ Failing = 1
    /\ FlushWrites(2)
    /\ store["B"] = FlushedRec(2).data
    /\ store["A"] = Absent

\* B and A were opened in this order and both changed, A was removed from the
\* book: the close raised the error of A and B was not written
FailedCloseDropsSeen ==
    /\ CloseFailed
    /\ Len(Flushed) = 2
    /\ FlushedId(1) = "B"
    /\ FlushedId(2) = "A"
    /\ Failing = 2
    /\ FlushWrites(1)
    /\ store["B"] = last.pre["B"]

(***************************************************************************)
(* C39: edit_html_iter (plain or wrapped) is driven by a for loop, whose   *)
(* body may call send() or throw(DoNotWriteBack) on the generator.  Every  *)
(* item is handed to the loop body by the loop's next(): a send() or a     *)
(* throw(DoNotWriteBack) of the body does not make the generator open an   *)
(* item, which the loop's next() would then pass by and write without the  *)
(* body having been given it.                                              *)
(***************************************************************************)
\* the body of the for loop has called send() or throw(DoNotWriteBack)
BodyResumed ==
    /\ gen.op = "edit_html_iter"
    /\ ~gen.cm
    /\ last.kind = "edit_html_iter"
    /\ last.op \in {"resume", "leave"}
    /\ last.sess # NoSession
    /\ \/ last.sig.t = "send"
       \/ last.sig.t = "throw" /\ last.sig.e = "DoNotWriteBack"

ForLoopSeesEveryItem ==
    BodyResumed =>
        \/ session = NoSession
        \/ /\ session.id = last.sess.id
           /\ gen.reads[Len(gen.reads)] = session.id
           /\ Len(gen.yields) <= Len(gen.reads) + 1

(***************************************************************************)
(* C40: in every state of an EditStack that is read and closed, the ids in *)
(* its cache are the ids of the sessions its ExitStack holds; each of      *)
(* these ids has one session, the one its cached entry came from, opened   *)
(* by the only read of the file since the last close; an id that is not    *)
(* cached has not been read since.  Right after __exit__ or clear() the    *)
(* cache is empty and no session is held.                                  *)
(***************************************************************************)
\* the ids in the cache of the stack
CacheIds == {id \in Ids : stack.data[id] # 0}

\* the ids of the sessions the stack holds
OpenIds == {stack.edit_stack[n].sess.id : n \in DOMAIN stack.edit_stack}

CacheIsOpenSessions ==
    /\ CacheIds = OpenIds
    /\ Len(stack.edit_stack) = Cardinality(OpenIds)
    /\ \A n \in DOMAIN stack.edit_stack :
          stack.data[stack.edit_stack[n].sess.id] = stack.edit_stack[n].h
    /\ \A id \in Ids : stack.reads[id] = IF id \in OpenIds THEN 1 ELSE 0
    /\ (last.op \in CloseOps /\ last.kind = "EditStack") =>
          /\ CacheIds = {}
          /\ stack.edit_stack = <<>>

\* A was got, the stack was closed and A was got again, twice: the cache holds A
\* with the session that the first get after the close opened
CacheIsOpenSessionsSeen ==
    /\ last.op = "get"
    /\ last.id = "A"
    /\ last.sess.data["A"] = 2
    /\ Len(stack.entries) = 2
    /\ CacheIds = {"A"}
    /\ Len(stack.edit_stack) = 1
    /\ stack.edit_stack[1].h = 2
    /\ stack.reads["A"] = 1

====
